---- MODULE Spec2Model ----
(***************************************************************************)
(* Model of the donut-bot crawler core: the Redis-backed URLFrontier       *)
(* (src/donutbot/url_frontier.py), the worker pipeline WebCrawler.worker / *)
(* WebCrawler.crawl_page, the run loop and the metrics reporter            *)
(* (src/web_crawler.py), the BloomFilter (src/donutbot/bloom_filter.py)    *)
(* and the RateLimiter (src/web-crawler/functions/rate_limiter.py).        *)
(*                                                                         *)
(* Granularity: the crawler is one asyncio process with several tasks.     *)
(* Every step of a task is one awaited operation (a Redis command, the     *)
(* HTTP response, a sink write, a sleep) together with the synchronous     *)
(* Python code that follows it up to the next await.  Redis commands are   *)
(* atomic; the four frontier keys are not linked by transactions.          *)
(* URLs are canonical (already normalised) tokens.                         *)
(***************************************************************************)
EXTENDS Integers, Naturals, Sequences, FiniteSets, TLC

\* ---------------------------------------------------------------- bounds
URLs == {"A", "B", "C"}          \* canonical URLs that exist on the web
Workers == {"w1", "w2"}          \* config.workers tasks
Domains == {"x.org", "y.org"}    \* hosts the rate limiter is asked about
NoURL == "none"
NoDomain == "none"
Free == "free"

MaxDepth == 1                    \* config.max_depth
MaxPages == 2                    \* config.max_pages when a page cap is set
IdleShutdownThreshold == 2       \* config.idle_shutdown_threshold
BloomSize == 4                   \* BloomFilter.size (bits)
BloomHashCount == 2              \* BloomFilter.hash_count
PriorityPatternURLs == {"C"}     \* URLs containing one of config.priority_patterns
EnableKafkaOutput == FALSE       \* config.enable_kafka_output
EnableLocalSave == TRUE          \* config.enable_local_save

\* score = -priority + added_at / 1_000_000_000, with priority kept in
\* hundredths and added_at in seconds: one hundredth of priority weighs
\* 10^7 seconds of added_at.
ScoreScale == 10000000

PriorityChoices == {50, 100}     \* priorities sent to POST /api/v1/urls/add
MaxPops == 2                     \* the pop counter of a URL stops here
RespectRobotsTxt == TRUE         \* config.respect_robots_txt
RobotsCacheTime == 2             \* config.robots_cache_time (seconds)
MaxDocuments == 2                \* documents that reach the output block in one run
MaxSegments == 2
MaxParams == 2
MaxAddUrlCalls == 3              \* add_url calls made with a URL string in one run
MaxResets == 1                   \* reset calls made on the frontier in one run
MaxAdds == 4                     \* BloomFilter.items_added_count stops here

DefaultDelay == 2                \* config.default_delay (seconds)
DelayChoices == {0, 3}           \* delays passed to update_custom_delay
MaxTime == 5                     \* the clock of the rate limiter stops here

VARIABLES
  universe,      \* the URLs the web serves in this run
  seeds,         \* config.seed_urls (canonical, de-duplicated)
  max_pages,     \* config.max_pages (0 means unlimited)
  queue,         \* crawler:url_queue_prio     (set of URL records)
  seen,          \* crawler:seen_urls_global
  processing,    \* crawler:processing_urls_global
  completed,     \* crawler:completed_urls_global
  bloom,         \* BloomFilter.bit_array, as the set of bits that are 1
  running,       \* WebCrawler.running
  metrics,       \* CrawlerMetrics counters
  clock,         \* time.time() as read by add_url
  pc,            \* position of every worker task
  loc,           \* local variables of every worker task
  runPc, runQ,   \* WebCrawler.run: position and q_s / q_s_check
  repPc, rep,    \* WebCrawler._report_metrics: position and locals
  addOk,         \* history: add_url calls that returned True, per URL
  fetches,       \* history: session.get calls started, per requested URL
  emitted,       \* history: documents handed to the sink, per document url
  idleSamples,   \* history: consecutive idle metrics samples (capped)
  now,           \* time.time() as read by the rate limiter (seconds)
  next_access,   \* RateLimiter.next_access (0 stands for no entry)
  rate_limits,   \* config.rate_limits (0 stands for no entry)
  delayUpdate,   \* history: the latest update_custom_delay call (domain, delay)
  lock,          \* RateLimiter._locks: the holder of each domain's lock
  rlPc,          \* position of every task inside wait / the request
  rlLoc,         \* locals of wait: domain, delay, wake-up time of the sleep
  lastReturn,    \* history: time of the latest return of wait, per domain
  apiPc,         \* position of the API request handler (add_urls)
  apiLoc,        \* locals of the add_url call made by the API handler
  popped,        \* history: get_url calls that returned the URL, per URL
  lastPop,       \* history: the latest ZPOPMIN reply and the entries it left
  failed,        \* history: the URLs mark_failed was called for
  robots_cache,  \* RobotsChecker.robots_cache, per origin
  robotsLock,    \* RobotsChecker._domain_locks: the holder of each origin's lock
  robPc,         \* position of every task inside can_fetch
  robLoc,        \* locals of can_fetch: url, origin, whether it waited, answer
  robotsOutcome, \* history: what the latest robots.txt request of an origin met
  svcPc,         \* CrawlerService: position of resume_crawler
  atPause,       \* history: the frontier as pause_crawler found it
  bloomAdded,    \* history: the strings given to BloomFilter.add since the last clear
  items_added_count, \* BloomFilter.items_added_count
  resetCall,     \* history: the reset calls made on the frontier, and the latest one
  clearLoc,      \* clear_specific_data: its position, clear_seen, the keys and their counts
  cfg,           \* the CrawlerConfig object shared by the API server and the crawler
  validation,    \* what the latest CrawlerConfig.validate call did
  sinks,         \* WebCrawler.producer and local_output_path, and what each sink holds
  emitPc,        \* position of the output block of crawl_page
  emitDoc,       \* history: what was done with the latest document
  domains,       \* config.allowed_domains, the value last configured, and whether run() has begun
  validCall,     \* history: the latest _is_valid_url call and its reply
  normCall,      \* history: the latest URL given to normalize_url and its replies
  addCall,       \* add_url called with a URL string: its position, locals and reply
  last_request_times, \* backend RateLimiter.last_request_times (NoRequest stands for no entry)
  bloomCall      \* history: the latest call made on the BloomFilter and its reply

vars == << universe, seeds, max_pages, queue, seen, processing, completed, bloom, running,
           metrics, clock, pc, loc, runPc, runQ, repPc, rep,
           addOk, fetches, emitted, idleSamples,
           now, next_access, rate_limits, delayUpdate, lock, rlPc, rlLoc, lastReturn,
           apiPc, apiLoc, popped, lastPop, failed,
           robots_cache, robotsLock, robPc, robLoc, robotsOutcome,
           svcPc, atPause, bloomAdded, items_added_count, bloomCall, resetCall, clearLoc,
           cfg, validation, sinks, emitPc, emitDoc, domains, validCall, normCall, addCall, last_request_times >>

config == << universe, seeds, max_pages >>
frontier == << queue, seen, processing, completed >>
engineTasks == << runPc, runQ, repPc, rep, idleSamples >>
history == << addOk, fetches, emitted >>
popHistory == << popped, lastPop, failed >>
apiVars == << apiPc, apiLoc >>
robotsVars == << robots_cache, robotsLock, robPc, robLoc, robotsOutcome >>
serviceVars == << svcPc, atPause >>
bloomOps == << bloomAdded, items_added_count, bloomCall >>
resetOps == << resetCall, clearLoc >>
outputOps == << cfg, validation, sinks, emitPc, emitDoc >>
validOps == << domains, validCall >>
normOps == << normCall, addCall >>
backendRateOps == << last_request_times >>
otherTasks == << apiVars, robotsVars, serviceVars, bloomOps, resetOps, outputOps, validOps, normOps, backendRateOps >>
rateVars == << now, next_access, rate_limits, delayUpdate, lock, rlPc, rlLoc, lastReturn >>
crawlCore == << config, frontier, bloom, running, metrics, clock, pc, loc,
                engineTasks, history, popHistory >>
crawlVars == << crawlCore, otherTasks >>

\* ------------------------------------------------------- pure functions
\* CrawlerConfig.max_pages > 0 and metrics.pages_crawled >= max_pages
PageCapReached(m) == max_pages > 0 /\ m.pages_crawled >= max_pages

\* WebCrawler._calculate_priority, in hundredths
Min(a, b) == IF a < b THEN a ELSE b
Max(a, b) == IF a > b THEN a ELSE b
CalculatePriority(u, depth) ==
  LET base == 100 - depth * 10
      p == IF u \in PriorityPatternURLs THEN base + 50 ELSE base
  IN Max(1, Min(150, p))

\* score computed by URLFrontier.add_url
ScorePriorityAscending(e) == e.added_at + e.priority * ScoreScale
Score(e) == e.added_at - e.priority * ScoreScale

\* redis ZPOPMIN candidates: the entries of lowest score (equal scores are
\* ordered by the member string in Redis; any of them may come first here)
MinEntriesAbovePriority(q) ==
  { e \in q : e.priority >= 100 /\ \A f \in q : Score(e) <= Score(f) }
MinEntries(q) == { e \in q : \A f \in q : Score(e) <= Score(f) }

\* redis SADD reply: 1 when the member was not there yet
SaddAlwaysNew(set, u) == TRUE
SaddIsNew(set, u) == u \notin set

\* redis SISMEMBER reply
SismemberNever(set, u) == FALSE
Sismember(set, u) == u \in set

\* BloomFilter._hash(item, seed) stands for MD5: a fixed table with collisions
UrlCode(u) == CASE u = "A" -> 0 [] u = "B" -> 1 [] u = "C" -> 2 [] OTHER -> 3
BloomHash(u, i) == UrlCode(u) + i
BloomIndexes(u) == { BloomHash(u, i) % BloomSize : i \in 0..(BloomHashCount - 1) }
BloomAddFirstHash(bits, u) == bits \cup {BloomHash(u, 0) % BloomSize}
BloomAdd(bits, u) == bits \cup BloomIndexes(u)
BloomContains(bits, u) == BloomIndexes(u) \subseteq bits

\* urllib.robotparser.RobotFileParser as used by RobotsChecker: a new parser
\* has read nothing (last_checked is unset); parse() records that the file
\* was read and keeps its rules; can_fetch() refuses every URL until the file
\* has been read and afterwards refuses the URLs the rules disallow
NoParser == [made |-> FALSE, last_checked |-> FALSE, disallowed |-> {}]
NewParser == [made |-> TRUE, last_checked |-> FALSE, disallowed |-> {}]
ParserParse(parser, rules) == [parser EXCEPT !.last_checked = TRUE, !.disallowed = rules]
ParserCanFetch(parser, u) == parser.last_checked /\ u \notin parser.disallowed

\* can_fetch lines 104-106: no parser means no, else the parser decides
RobotsDecision(parser, u) == parser.made /\ ParserCanFetch(parser, u)

\* can_fetch lines 99-102: scheme://netloc of the URL
Origin(u) == IF u \in {"A", "B"} THEN "x.org" ELSE "y.org"

\* _get_robots_data line 67: the cache entry exists and is younger than the TTL
CacheNeverValid(cache, t) == FALSE
CacheValid(cache, t) == cache.status # "none" /\ t - cache.timestamp < RobotsCacheTime

\* asyncio.Lock: it can be taken when nobody holds it
LockAlwaysFree(holder) == TRUE
LockIsFree(holder) == holder = Free

\* CrawlerEngine._calculate_priority, in hundredths
EngineCalculatePriority(u, depth) ==
  LET base == 100 - depth * 10
      p == IF u \in PriorityPatternURLs THEN base + 20 ELSE base
  IN Max(10, p)

\* crawl_page line 519: links are enqueued only below max_depth
DepthAllowsLinksInclusive(depth) == depth <= MaxDepth
DepthAllowsLinks(depth) == depth < MaxDepth

\* ------------------------------------------------------------ initial state
LocInit == [url |-> NoURL, depth |-> 0, final |-> NoURL, links |-> {},
            link |-> NoURL, target |-> NoURL, after |-> "ret", entry |-> << >>]

\* no record: the value of a record variable that holds nothing
NoEntry == [url |-> NoURL, depth |-> 0, priority |-> 0, added_at |-> 0]
ApiLocInit == [url |-> NoURL, priority |-> 0, depth |-> 0, entry |-> NoEntry,
               after_clear |-> FALSE]

\* robots_cache.get(domain_key) when the origin has no entry
NoCache == [status |-> "none", timestamp |-> 0, parser |-> NoParser]
RobLocInit == [url |-> NoURL, origin |-> NoDomain, waited |-> FALSE,
               fetched |-> FALSE, basis |-> "none", answer |-> FALSE]

\* no pause has happened, or the crawler was resumed after it
\* CrawlerConfig: the defaults of the dataclass, in the fields validate reads
\* (a string is kept as whether it is non-empty, bloom_error_rate in
\* thousandths)
DefaultConfig ==
  [enable_kafka_output |-> FALSE, enable_local_save |-> TRUE, kafka_brokers |-> TRUE,
   local_output_dir |-> TRUE, workers |-> 3, max_depth |-> 3, max_pages |-> 4000,
   default_delay |-> 2, rate_limits |-> {},
   bloom_capacity |-> [is_int |-> TRUE, value |-> 10000000],
   bloom_error_rate |-> [is_float |-> TRUE, value |-> 1]]

\* WebCrawler.__init__: no producer, no output path, nothing written
NoSinks == [producer |-> FALSE, local_output_path |-> FALSE, kafka |-> 0, files |-> 0,
            documents |-> 0]
NoDocument == [both_enabled |-> FALSE, kafka |-> "none", local |-> "none"]
NoLink == [scheme |-> "", netloc |-> "", excluded |-> FALSE]
NoRequest == -1
NoAddCall == [pc |-> "idle", n |-> 0, url |-> << >>, norm_url |-> << >>, priority |-> 0,
              returned |-> FALSE]
NoNormCall == [calls |-> 0, url |-> << >>, first |-> << >>, second |-> << >>]
NoValidCall == [link |-> NoLink, configured |-> {"x.org"}, result |-> FALSE]
NoCounts == [completed |-> -1, seen |-> -1, processing |-> -1, queue |-> -1]
NoClear == [pc |-> "idle", clear_seen |-> FALSE, keys |-> {}, counts |-> NoCounts]
NoReset == [n |-> 0, op |-> "none", clear_seen |-> FALSE]
NoCall == [op |-> "none", item |-> NoURL, result |-> FALSE]
NotPaused == [active |-> FALSE, queue |-> {}, seen |-> {}, completed |-> {}]

SeedEntry(u) == [url |-> u, depth |-> 0, priority |-> 100, added_at |-> 0]

\* State after WebCrawler.initialize(): _load_seed_urls has added every seed
\* with priority 1.0 and depth 0, and run() is about to launch the tasks.
\* parser.crawl_delay is None: the file has no Crawl-delay for the agent
NoCrawlDelay == -1
NoDelayUpdate == [domain |-> NoDomain, delay |-> 0]

InitRate ==
  /\ now = 0
  /\ next_access = [d \in Domains |-> 0]
  /\ rate_limits = [d \in Domains |-> 0]
  /\ delayUpdate = NoDelayUpdate
  /\ lock = [d \in Domains |-> Free]
  /\ rlPc = [w \in Workers |-> "idle"]
  /\ rlLoc = [w \in Workers |-> [domain |-> NoDomain, delay |-> 0, wake |-> 0]]
  /\ lastReturn = [d \in Domains |-> -1]

InitState(univ, seedChoices, capChoices) ==
  /\ InitRate
  /\ universe = univ
  /\ seeds \in seedChoices
  /\ max_pages \in capChoices
  /\ queue = { SeedEntry(u) : u \in seeds }
  /\ seen = seeds
  /\ processing = {}
  /\ completed = {}
  /\ bloom = {}
  /\ metrics = [pages_crawled |-> 0, errors |-> 0, robots_denied |-> 0]
  /\ clock = 1
  /\ running = ~(seeds = {} /\ max_pages > 0)
  /\ loc = [w \in Workers |-> LocInit]
  /\ runPc = IF seeds = {} /\ max_pages > 0 THEN "run_done" ELSE "run_sleep"
  /\ runQ = 0
  /\ repPc = IF seeds = {} /\ max_pages > 0 THEN "rep_done" ELSE "rep_sleep"
  /\ rep = [idle_reports_at_empty_q |-> 0, last_crawled_count |-> -1,
            current_crawled |-> 0, q_size |-> 0]
  /\ addOk = [u \in URLs |-> IF u \in seeds THEN 1 ELSE 0]
  /\ fetches = [u \in URLs |-> 0]
  /\ emitted = [u \in URLs |-> 0]
  /\ idleSamples = 0
  /\ apiPc = "idle"
  /\ apiLoc = ApiLocInit
  /\ popped = [u \in URLs |-> 0]
  /\ lastPop = [entry |-> NoEntry, rest |-> {}]
  /\ failed = {}
  /\ robots_cache = [o \in Domains |-> NoCache]
  /\ robotsLock = [o \in Domains |-> Free]
  /\ robPc = [w \in Workers |-> "idle"]
  /\ robLoc = [w \in Workers |-> RobLocInit]
  /\ robotsOutcome = [o \in Domains |-> "none"]
  /\ svcPc = "idle"
  /\ atPause = NotPaused
  /\ bloomAdded = {}
  /\ items_added_count = 0
  /\ resetCall = NoReset
  /\ clearLoc = NoClear
  /\ cfg = DefaultConfig
  /\ validation = "not called"
  /\ sinks = NoSinks
  /\ emitPc = "idle"
  /\ emitDoc = NoDocument
  /\ domains = [configured |-> {"x.org"}, allowed_domains |-> {"x.org"}, run_started |-> FALSE]
  /\ validCall = NoValidCall
  /\ normCall = NoNormCall
  /\ addCall = NoAddCall
  /\ last_request_times = [d \in Domains |-> NoRequest]
  /\ bloomCall = NoCall

InitWith(univ, seedChoices, capChoices) ==
  /\ InitState(univ, seedChoices, capChoices)
  /\ pc = [w \in Workers |-> IF seeds = {} /\ max_pages > 0 THEN "stopped" ELSE "top"]

Init == InitWith(URLs, {{"A"}, {"A", "B"}}, {MaxPages})

\* ------------------------------------------------------------ worker steps
\* return from crawl_page to the worker loop (await asyncio.sleep(0.001))
Return(w) == /\ pc' = [pc EXCEPT ![w] = "top"]
             /\ loc' = [loc EXCEPT ![w] = LocInit]

\* worker(): the while-condition and the page-cap test, then get_url is called
WorkerLoop(w) ==
  /\ pc[w] = "top"
  /\ IF ~running
       THEN /\ pc' = [pc EXCEPT ![w] = "stopped"]
            /\ UNCHANGED running
       ELSE IF PageCapReached(metrics)
         THEN /\ running' = FALSE
              /\ pc' = [pc EXCEPT ![w] = "stopped"]
         ELSE /\ pc' = [pc EXCEPT ![w] = "zpopmin"]
              /\ UNCHANGED running
  /\ UNCHANGED << config, otherTasks, popHistory, rateVars, frontier, bloom, metrics, clock, loc,
                  engineTasks, history >>

\* get_url: ZPOPMIN; an empty reply makes the worker sleep and loop
GetUrlZpopmin(w) ==
  /\ pc[w] = "zpopmin"
  /\ IF queue = {}
       THEN /\ Return(w)
            /\ UNCHANGED << queue, lastPop >>
       ELSE \E e \in MinEntries(queue) :
              /\ queue' = queue \ {e}
              /\ lastPop' = [entry |-> e, rest |-> queue \ {e}]
              /\ loc' = [loc EXCEPT ![w].url = e.url, ![w].depth = e.depth]
              /\ pc' = [pc EXCEPT ![w] = "sadd_processing"]
  /\ UNCHANGED << config, otherTasks, popped, failed, rateVars, seen, processing, completed, bloom, running,
                  metrics, clock, engineTasks, history >>

\* get_url: SADD processing; a reply of 1 returns the record to worker(),
\* which calls crawl_page, whose first statement is the page-cap test;
\* a reply of 0 retries get_url
GetUrlSaddProcessing(w) ==
  /\ pc[w] = "sadd_processing"
  /\ IF SaddIsNew(processing, loc[w].url)
       THEN /\ processing' = processing \cup {loc[w].url}
            /\ popped' = [popped EXCEPT ![loc[w].url] = Min(@ + 1, MaxPops)]
            /\ IF PageCapReached(metrics)
                 THEN /\ running' = FALSE
                      /\ Return(w)
                 ELSE /\ pc' = [pc EXCEPT ![w] = "is_completed"]
                      /\ UNCHANGED << running, loc >>
       ELSE /\ pc' = [pc EXCEPT ![w] = "zpopmin"]
            /\ loc' = [loc EXCEPT ![w] = LocInit]
            /\ UNCHANGED << processing, running, popped >>
  /\ UNCHANGED << config, otherTasks, lastPop, failed, rateVars, queue, seen, completed, bloom, metrics,
                  clock, engineTasks, history >>

\* crawl_page lines 435-441: is_url_completed, then the bloom test.
\* The completed branch evaluates url_frontier.processing_urls_key, which
\* URLFrontier does not define: AttributeError, handled by the general
\* except clause (errors += 1, mark_failed, bloom.add).
CrawlIsCompleted(w) ==
  /\ pc[w] = "is_completed"
  /\ IF Sismember(completed, loc[w].url)
       THEN /\ metrics' = [metrics EXCEPT !.errors = @ + 1]
            /\ pc' = [pc EXCEPT ![w] = "mark_failed"]
            /\ UNCHANGED loc
       ELSE /\ UNCHANGED metrics
            /\ IF BloomContains(bloom, loc[w].url)
                 THEN Return(w)
                 ELSE /\ pc' = [pc EXCEPT ![w] = "can_fetch"]
                      /\ UNCHANGED loc
  /\ UNCHANGED << config, otherTasks, popHistory, rateVars, frontier, bloom, running, clock,
                  engineTasks, history >>

\* start mark_completed(target) and remember what follows it
CallMarkCompleted(w, target, after) ==
  /\ pc' = [pc EXCEPT ![w] = "mc_srem"]
  /\ loc' = [loc EXCEPT ![w].target = target, ![w].after = after]

\* crawl_page lines 441-447: robots_checker.can_fetch answers
CrawlCanFetchUncounted(w) ==
  /\ pc[w] = "can_fetch"
  /\ \E allowed \in BOOLEAN :
       IF allowed
         THEN /\ pc' = [pc EXCEPT ![w] = "rate_wait"]
              /\ UNCHANGED << loc, metrics >>
         ELSE /\ UNCHANGED metrics
              /\ CallMarkCompleted(w, loc[w].url, "bloom_ret")
  /\ UNCHANGED << config, otherTasks, popHistory, rateVars, frontier, bloom, running, clock,
                  engineTasks, history >>
CrawlCanFetch(w) ==
  /\ pc[w] = "can_fetch"
  /\ \E allowed \in BOOLEAN :
       IF allowed
         THEN /\ pc' = [pc EXCEPT ![w] = "rate_wait"]
              /\ UNCHANGED << loc, metrics >>
         ELSE /\ metrics' = [metrics EXCEPT !.robots_denied = @ + 1]
              /\ CallMarkCompleted(w, loc[w].url, "bloom_ret")
  /\ UNCHANGED << config, otherTasks, popHistory, rateVars, frontier, bloom, running, clock,
                  engineTasks, history >>

\* crawl_page lines 447-450: rate_limiter.wait returns and session.get starts
CrawlStartFetch(w) ==
  /\ pc[w] = "rate_wait"
  /\ pc' = [pc EXCEPT ![w] = "fetch"]
  /\ fetches' = [fetches EXCEPT ![loc[w].url] = @ + 1]
  /\ UNCHANGED << config, otherTasks, popHistory, rateVars, frontier, bloom, running, metrics, clock,
                  loc, engineTasks, addOk, emitted >>

\* crawl_page lines 459-465 after the redirect test: bloom.add of the
\* requested and the final URL, then the content-type gate
AfterRedirectTestOneAdd(w, final, ctypeOk) ==
  /\ bloom' = BloomAdd(bloom, loc[w].url)
  /\ IF ctypeOk
       THEN /\ pc' = [pc EXCEPT ![w] = "read_body"]
            /\ loc' = [loc EXCEPT ![w].final = final]
       ELSE /\ pc' = [pc EXCEPT ![w] = "mc_srem"]
            /\ loc' = [loc EXCEPT ![w].final = final, ![w].target = final,
                                  ![w].after = "ret"]
AfterRedirectTest(w, final, ctypeOk) ==
  /\ bloom' = BloomAdd(BloomAdd(bloom, loc[w].url), final)
  /\ IF ctypeOk
       THEN /\ pc' = [pc EXCEPT ![w] = "read_body"]
            /\ loc' = [loc EXCEPT ![w].final = final]
       ELSE /\ pc' = [pc EXCEPT ![w] = "mc_srem"]
            /\ loc' = [loc EXCEPT ![w].final = final, ![w].target = final,
                                  ![w].after = "ret"]

\* crawl_page lines 450-457 and 534-550: the response (or an exception) arrives
CrawlFetchCountsTwice(w) ==
  /\ pc[w] = "fetch"
  /\ \/ \* aiohttp.ClientError, asyncio.TimeoutError or another exception
        /\ metrics' = [metrics EXCEPT !.errors = @ + 2]
        /\ pc' = [pc EXCEPT ![w] = "mark_failed"]
        /\ UNCHANGED << loc, bloom >>
     \/ \* a response; final is the URL after redirects
        /\ \E final \in universe, ctypeOk \in BOOLEAN :
             IF final # loc[w].url
               THEN /\ pc' = [pc EXCEPT ![w] = "redirect_completed"]
                    /\ loc' = [loc EXCEPT ![w].final = final,
                                          ![w].after = IF ctypeOk THEN "ctype_ok" ELSE "ctype_bad"]
                    /\ UNCHANGED bloom
               ELSE AfterRedirectTest(w, final, ctypeOk)
        /\ UNCHANGED metrics
  /\ UNCHANGED << config, otherTasks, popHistory, rateVars, frontier, running, clock, engineTasks, history >>
CrawlFetch(w) ==
  /\ pc[w] = "fetch"
  /\ \/ \* aiohttp.ClientError, asyncio.TimeoutError or another exception
        /\ metrics' = [metrics EXCEPT !.errors = @ + 1]
        /\ pc' = [pc EXCEPT ![w] = "mark_failed"]
        /\ UNCHANGED << loc, bloom >>
     \/ \* a response; final is the URL after redirects
        /\ \E final \in universe, ctypeOk \in BOOLEAN :
             IF final # loc[w].url
               THEN /\ pc' = [pc EXCEPT ![w] = "redirect_completed"]
                    /\ loc' = [loc EXCEPT ![w].final = final,
                                          ![w].after = IF ctypeOk THEN "ctype_ok" ELSE "ctype_bad"]
                    /\ UNCHANGED bloom
               ELSE AfterRedirectTest(w, final, ctypeOk)
        /\ UNCHANGED metrics
  /\ UNCHANGED << config, otherTasks, popHistory, rateVars, frontier, running, clock, engineTasks, history >>

\* crawl_page lines 455-457: is_url_completed(final_url_after_redirects)
CrawlRedirectCompletedSkips(w) ==
  /\ pc[w] = "redirect_completed"
  /\ IF Sismember(completed, loc[w].final)
       THEN /\ Return(w)
            /\ UNCHANGED bloom
       ELSE AfterRedirectTest(w, loc[w].final, loc[w].after = "ctype_ok")
  /\ UNCHANGED << config, otherTasks, popHistory, rateVars, frontier, running, metrics, clock,
                  engineTasks, history >>
CrawlRedirectCompleted(w) ==
  /\ pc[w] = "redirect_completed"
  /\ IF Sismember(completed, loc[w].final)
       THEN /\ CallMarkCompleted(w, loc[w].url, "bloom_ret")
            /\ UNCHANGED bloom
       ELSE AfterRedirectTest(w, loc[w].final, loc[w].after = "ctype_ok")
  /\ UNCHANGED << config, otherTasks, popHistory, rateVars, frontier, running, metrics, clock,
                  engineTasks, history >>

\* crawl_page lines 467-476: response.text() returns; size gate; extraction;
\* pages_crawled += 1
CrawlReadBody(w) ==
  /\ pc[w] = "read_body"
  /\ \E sizeOk \in BOOLEAN, links \in SUBSET universe :
       IF sizeOk
         THEN /\ metrics' = [metrics EXCEPT !.pages_crawled = @ + 1]
              /\ loc' = [loc EXCEPT ![w].links = links]
              /\ pc' = [pc EXCEPT ![w] = "emit"]
         ELSE /\ links = {}
              /\ CallMarkCompleted(w, loc[w].final, "ret")
              /\ UNCHANGED metrics
  /\ UNCHANGED << config, otherTasks, popHistory, rateVars, frontier, bloom, running, clock,
                  engineTasks, history >>

\* crawl_page lines 491-515: the sink write, then mark_completed(final) starts
CrawlEmit(w) ==
  /\ pc[w] = "emit"
  /\ IF EnableKafkaOutput
       THEN \E sent \in BOOLEAN :
              /\ emitted' = [emitted EXCEPT ![loc[w].final] = IF sent THEN @ + 1 ELSE @]
              /\ metrics' = [metrics EXCEPT !.errors = IF sent THEN @ ELSE @ + 1]
       ELSE IF EnableLocalSave
         THEN \E saved \in BOOLEAN :
                /\ emitted' = [emitted EXCEPT ![loc[w].final] = IF saved THEN @ + 1 ELSE @]
                /\ UNCHANGED metrics
         ELSE UNCHANGED << emitted, metrics >>
  /\ CallMarkCompleted(w, loc[w].final,
                       IF loc[w].final # loc[w].url THEN "second_mc" ELSE "links")
  /\ UNCHANGED << config, otherTasks, popHistory, rateVars, frontier, bloom, running, clock,
                  engineTasks, addOk, fetches >>

\* the link loop of crawl_page lines 519-531: take the next extracted link
\* and call is_url_completed on it, or return when none is left
NextLink(w, todo) ==
  IF todo = {}
    THEN Return(w)
    ELSE \E l \in todo :
           /\ pc' = [pc EXCEPT ![w] = "link_completed"]
           /\ loc' = [loc EXCEPT ![w].links = todo \ {l}, ![w].link = l]

\* mark_completed: SREM processing
MarkCompletedSremToggle(w) ==
  /\ pc[w] = "mc_srem"
  /\ processing' = IF loc[w].target \in processing
                     THEN processing \ {loc[w].target}
                     ELSE processing \cup {loc[w].target}
  /\ pc' = [pc EXCEPT ![w] = "mc_sadd"]
  /\ UNCHANGED << config, otherTasks, popHistory, rateVars, queue, seen, completed, bloom, running,
                  metrics, clock, loc, engineTasks, history >>
MarkCompletedSrem(w) ==
  /\ pc[w] = "mc_srem"
  /\ processing' = processing \ {loc[w].target}
  /\ pc' = [pc EXCEPT ![w] = "mc_sadd"]
  /\ UNCHANGED << config, otherTasks, popHistory, rateVars, queue, seen, completed, bloom, running,
                  metrics, clock, loc, engineTasks, history >>

\* mark_completed: SADD completed, then the code after the call
MarkCompletedSadd(w) ==
  /\ pc[w] = "mc_sadd"
  /\ completed' = completed \cup {loc[w].target}
  /\ CASE loc[w].after = "bloom_ret" ->
            /\ bloom' = BloomAdd(bloom, loc[w].url)
            /\ Return(w)
       [] loc[w].after = "ret" ->
            /\ Return(w)
            /\ UNCHANGED bloom
       [] loc[w].after = "second_mc" ->
            /\ CallMarkCompleted(w, loc[w].url, "links")
            /\ UNCHANGED bloom
       [] OTHER ->
            /\ IF DepthAllowsLinks(loc[w].depth)
                 THEN NextLink(w, loc[w].links)
                 ELSE Return(w)
            /\ UNCHANGED bloom
  /\ UNCHANGED << config, otherTasks, popHistory, rateVars, queue, seen, processing, running, metrics,
                  clock, engineTasks, history >>

\* mark_failed: SREM processing; then bloom.add and return (lines 536-550)
MarkFailedForgets(w) ==
  /\ pc[w] = "mark_failed"
  /\ processing' = processing \ {loc[w].url}
  /\ seen' = seen \ {loc[w].url}
  /\ failed' = failed \cup {loc[w].url}
  /\ bloom' = BloomAdd(bloom, loc[w].url)
  /\ Return(w)
  /\ UNCHANGED << config, otherTasks, popped, lastPop, rateVars, queue, completed, running,
                  metrics, clock, engineTasks, history >>
MarkFailed(w) ==
  /\ pc[w] = "mark_failed"
  /\ processing' = processing \ {loc[w].url}
  /\ failed' = failed \cup {loc[w].url}
  /\ bloom' = BloomAdd(bloom, loc[w].url)
  /\ Return(w)
  /\ UNCHANGED << config, otherTasks, popped, lastPop, rateVars, queue, seen, completed, running,
                  metrics, clock, engineTasks, history >>

\* crawl_page lines 525-528: is_url_completed(link), bloom test, add_url called
LinkIsCompleted(w) ==
  /\ pc[w] = "link_completed"
  /\ IF Sismember(completed, loc[w].link) \/ BloomContains(bloom, loc[w].link)
       THEN NextLink(w, loc[w].links)
       ELSE /\ pc' = [pc EXCEPT ![w] = "add_sismember"]
            /\ UNCHANGED loc
  /\ UNCHANGED << config, otherTasks, popHistory, rateVars, frontier, bloom, running, metrics, clock,
                  engineTasks, history >>

\* add_url: SISMEMBER completed
AddUrlSismember(w) ==
  /\ pc[w] = "add_sismember"
  /\ IF Sismember(completed, loc[w].link)
       THEN NextLink(w, loc[w].links)
       ELSE /\ pc' = [pc EXCEPT ![w] = "add_sadd"]
            /\ UNCHANGED loc
  /\ UNCHANGED << config, otherTasks, popHistory, rateVars, frontier, bloom, running, metrics, clock,
                  engineTasks, history >>

\* add_url: SADD seen; on a reply of 1 the record is built (time.time())
AddUrlSadd(w) ==
  /\ pc[w] = "add_sadd"
  /\ IF SaddIsNew(seen, loc[w].link)
       THEN /\ seen' = seen \cup {loc[w].link}
            /\ loc' = [loc EXCEPT ![w].entry =
                         [url |-> loc[w].link, depth |-> loc[w].depth + 1,
                          priority |-> CalculatePriority(loc[w].link, loc[w].depth + 1),
                          added_at |-> clock]]
            /\ clock' = clock + 1
            /\ pc' = [pc EXCEPT ![w] = "add_zadd"]
       ELSE /\ NextLink(w, loc[w].links)
            /\ UNCHANGED << seen, clock >>
  /\ UNCHANGED << config, otherTasks, popHistory, rateVars, queue, processing, completed, bloom, running,
                  metrics, engineTasks, history >>

\* add_url: ZADD queue, return True
AddUrlZadd(w) ==
  /\ pc[w] = "add_zadd"
  /\ queue' = queue \cup {loc[w].entry}
  /\ addOk' = [addOk EXCEPT ![loc[w].link] = @ + 1]
  /\ \E todo \in {loc[w].links} :
       IF todo = {}
         THEN Return(w)
         ELSE \E l \in todo :
                /\ pc' = [pc EXCEPT ![w] = "link_completed"]
                /\ loc' = [loc EXCEPT ![w].links = todo \ {l}, ![w].link = l,
                                      ![w].entry = << >>]
  /\ UNCHANGED << config, otherTasks, popHistory, rateVars, seen, processing, completed, bloom, running,
                  metrics, clock, engineTasks, fetches, emitted >>


\* ------------------------------------------------ API handler (add_urls)
\* add_urls lines 222-252: the crawler must be running; the request names a
\* URL of the web and a priority (depth is left at its default 0); add_url
\* is called
ApiAddUrls ==
  /\ apiPc = "idle"
  /\ running
  /\ \E u \in universe, p \in PriorityChoices :
       apiLoc' = [url |-> u, priority |-> p, depth |-> 0, entry |-> NoEntry,
                  after_clear |-> FALSE]
  /\ apiPc' = "add_sismember"
  /\ UNCHANGED << config, robotsVars, serviceVars, bloomOps, resetOps, outputOps, validOps, normOps, backendRateOps, popHistory, rateVars, frontier, bloom, running, metrics,
                  clock, pc, loc, engineTasks, history >>

\* the response of add_urls is sent; the handler is ready for another request
ApiReturn ==
  /\ apiPc' = "idle"
  /\ apiLoc' = ApiLocInit

\* the frontier is as clear_all_frontier_data left it
AsCleared ==
  /\ resetCall.op = "clear_all_frontier_data"
  /\ queue = {} /\ seen = {} /\ processing = {} /\ completed = {}

\* add_url: SISMEMBER completed (after_clear records whether this first
\* command of the call found the frontier as a clear had left it)
ApiAddSismember ==
  /\ apiPc = "add_sismember"
  /\ IF Sismember(completed, apiLoc.url)
       THEN ApiReturn
       ELSE /\ apiPc' = "add_sadd"
            /\ apiLoc' = [apiLoc EXCEPT !.after_clear = AsCleared]
  /\ UNCHANGED << config, robotsVars, serviceVars, bloomOps, resetOps, outputOps, validOps, normOps, backendRateOps, popHistory, rateVars, frontier, bloom, running, metrics,
                  clock, pc, loc, engineTasks, history >>

\* add_url: SADD seen; on a reply of 1 the record is built; time.time() has a
\* finite resolution, so the next reading may or may not be a later one
ApiAddSadd ==
  /\ apiPc = "add_sadd"
  /\ IF SaddIsNew(seen, apiLoc.url)
       THEN /\ seen' = seen \cup {apiLoc.url}
            /\ apiLoc' = [apiLoc EXCEPT !.entry =
                            [url |-> apiLoc.url, depth |-> apiLoc.depth,
                             priority |-> apiLoc.priority, added_at |-> clock]]
            /\ clock' \in {clock, clock + 1}
            /\ apiPc' = "add_zadd"
       ELSE /\ ApiReturn
            /\ UNCHANGED << seen, clock >>
  /\ UNCHANGED << config, robotsVars, serviceVars, bloomOps, resetOps, outputOps, validOps, normOps, backendRateOps, popHistory, rateVars, queue, processing, completed, bloom,
                  running, metrics, pc, loc, engineTasks, history >>

\* add_url: ZADD queue, return True
ApiAddZadd ==
  /\ apiPc = "add_zadd"
  /\ queue' = queue \cup {apiLoc.entry}
  /\ addOk' = [addOk EXCEPT ![apiLoc.url] = @ + 1]
  /\ ApiReturn
  /\ UNCHANGED << config, robotsVars, serviceVars, bloomOps, resetOps, outputOps, validOps, normOps, backendRateOps, popHistory, rateVars, seen, processing, completed, bloom,
                  running, metrics, clock, pc, loc, engineTasks, fetches, emitted >>

ApiStep ==
  \/ ApiAddSismember
  \/ ApiAddSadd
  \/ ApiAddZadd

\* --------------------------------------------------- run loop (main task)
\* the while-condition of the main loop in run(), evaluated after an iteration
RunLoopBack(stillRunning) == IF stillRunning THEN "run_sleep" ELSE "run_gather"

\* run() lines 635-636: sleep(1) is over, url_frontier.size() answers
RunSize(first) ==
  /\ runPc = (IF first THEN "run_sleep" ELSE "run_sleep2")
  /\ runQ' = Cardinality(queue)
  /\ runPc' = (IF first THEN "run_proc" ELSE "run_proc2")
  /\ UNCHANGED << config, otherTasks, popHistory, rateVars, frontier, bloom, running, metrics, clock, pc, loc,
                  repPc, rep, idleSamples, history >>

\* run() lines 636-641: get_processing_count() answers; page-cap test;
\* an empty frontier starts the 1.5 s confirmation sleep
RunProcessingCount ==
  /\ runPc = "run_proc"
  /\ IF PageCapReached(metrics)
       THEN /\ running' = FALSE
            /\ runPc' = "run_gather"
       ELSE IF runQ = 0 /\ Cardinality(processing) = 0
         THEN /\ runPc' = "run_sleep2"
              /\ UNCHANGED running
         ELSE /\ runPc' = RunLoopBack(running)
              /\ UNCHANGED running
  /\ UNCHANGED << config, otherTasks, popHistory, rateVars, frontier, bloom, metrics, clock, pc, loc, runQ,
                  repPc, rep, idleSamples, history >>

\* run() lines 642-647: the second get_processing_count() answers
RunConfirmEmpty ==
  /\ runPc = "run_proc2"
  /\ IF runQ = 0 /\ Cardinality(processing) = 0
       THEN IF metrics.pages_crawled > 0
              THEN /\ running' = FALSE
                   /\ runPc' = "run_gather"
              ELSE IF seeds # {}
                THEN /\ runPc' = RunLoopBack(running)
                     /\ UNCHANGED running
                ELSE /\ runPc' = "run_completed"
                     /\ UNCHANGED running
       ELSE /\ runPc' = RunLoopBack(running)
            /\ UNCHANGED running
  /\ UNCHANGED << config, otherTasks, popHistory, rateVars, frontier, bloom, metrics, clock, pc, loc, runQ,
                  repPc, rep, idleSamples, history >>

\* run() line 644: get_completed_count() answers (no seeds, nothing crawled)
RunCompletedCount ==
  /\ runPc = "run_completed"
  /\ IF Cardinality(completed) > 0
       THEN /\ runPc' = RunLoopBack(running)
            /\ UNCHANGED running
       ELSE /\ running' = FALSE
            /\ runPc' = "run_gather"
  /\ UNCHANGED << config, otherTasks, popHistory, rateVars, frontier, bloom, metrics, clock, pc, loc, runQ,
                  repPc, rep, idleSamples, history >>

\* run() lines 649-674: gather(worker_tasks) returns once every worker has
\* left its loop; the finally block clears running and cancels the reporter
RunFinish ==
  /\ runPc = "run_gather"
  /\ \A w \in Workers : pc[w] = "stopped"
  /\ running' = FALSE
  /\ runPc' = "run_done"
  /\ repPc' = "rep_done"
  /\ UNCHANGED << config, otherTasks, popHistory, rateVars, frontier, bloom, metrics, clock, pc, loc, runQ,
                  rep, idleSamples, history >>

RunStep ==
  \/ RunSize(TRUE)
  \/ RunProcessingCount
  \/ RunSize(FALSE)
  \/ RunConfirmEmpty
  \/ RunCompletedCount
  \/ RunFinish

\* ------------------------------------------------------- metrics reporter
\* _report_metrics lines 688-696: the sleep is over; running is re-tested,
\* pages_crawled is read, url_frontier.size() is called
ReportWake ==
  /\ repPc = "rep_sleep"
  /\ IF running
       THEN /\ rep' = [rep EXCEPT !.current_crawled = metrics.pages_crawled]
            /\ repPc' = "rep_size"
       ELSE /\ repPc' = "rep_done"
            /\ UNCHANGED rep
  /\ UNCHANGED << config, otherTasks, popHistory, rateVars, frontier, bloom, running, metrics, clock, pc, loc,
                  runPc, runQ, idleSamples, history >>

\* _report_metrics line 696: url_frontier.size() answers
ReportSize ==
  /\ repPc = "rep_size"
  /\ rep' = [rep EXCEPT !.q_size = Cardinality(queue)]
  /\ repPc' = "rep_proc"
  /\ UNCHANGED << config, otherTasks, popHistory, rateVars, frontier, bloom, running, metrics, clock, pc, loc,
                  runPc, runQ, idleSamples, history >>

\* the idle bookkeeping of _report_metrics lines 709-726 as a function of the
\* sample: the new idle_reports_at_empty_q and whether shutdown is initiated
IdleDecision(r, p_count) ==
  IF r.q_size = 0 /\ p_count = 0
    THEN IF r.current_crawled = r.last_crawled_count /\ r.current_crawled > 0
           THEN [idle |-> r.idle_reports_at_empty_q + 1,
                 stop |-> r.idle_reports_at_empty_q + 1 >= IdleShutdownThreshold]
           ELSE IF r.current_crawled = 0 /\ r.last_crawled_count = -1 /\ seeds = {}
             THEN [idle |-> r.idle_reports_at_empty_q + 1,
                   stop |-> r.idle_reports_at_empty_q + 1 >= IdleShutdownThreshold + 2]
             ELSE [idle |-> 0, stop |-> FALSE]
    ELSE [idle |-> 0, stop |-> FALSE]

\* a sample is idle when queue and processing are empty and pages_crawled has
\* not advanced since the previous sample (since the start for the first one)
IdleSample(r, p_count) ==
  /\ r.q_size = 0
  /\ p_count = 0
  /\ r.current_crawled = (IF r.last_crawled_count = -1 THEN 0 ELSE r.last_crawled_count)

\* _report_metrics lines 697-726: get_processing_count() and
\* get_completed_count() answer (the latter is only logged); idle bookkeeping
ReportSample ==
  /\ repPc = "rep_proc"
  /\ LET p_count == Cardinality(processing)
         d == IdleDecision(rep, p_count)
     IN /\ rep' = [rep EXCEPT !.idle_reports_at_empty_q = d.idle,
                              !.last_crawled_count = IF d.stop THEN @ ELSE rep.current_crawled]
        /\ running' = (IF d.stop THEN FALSE ELSE running)
        /\ repPc' = (IF d.stop \/ ~running THEN "rep_done" ELSE "rep_sleep")
        /\ idleSamples' = (IF IdleSample(rep, p_count)
                             THEN Min(idleSamples + 1, IdleShutdownThreshold)
                             ELSE 0)
  /\ UNCHANGED << config, otherTasks, popHistory, rateVars, frontier, bloom, metrics, clock, pc, loc,
                  runPc, runQ, history >>

ReportStep ==
  \/ ReportWake
  \/ ReportSize
  \/ ReportSample

\* ------------------------------------------------------------ rate limiter
\* config.rate_limits.get(domain, config.default_delay)
EffectiveDelay(limits, d) == IF limits[d] = 0 THEN DefaultDelay ELSE limits[d]

\* RateLimiter.wait lines 15-20 once the domain lock is held: read the delay,
\* the time and next_access; either sleep until next_access, keeping the lock,
\* or commit next_access = now + delay, release the lock and return, after
\* which crawl_page sends the request
WaitEnter(w, d) ==
  LET delay == EffectiveDelay(rate_limits, d)
  IN IF now < next_access[d]
       THEN /\ lock' = [lock EXCEPT ![d] = w]
            /\ rlPc' = [rlPc EXCEPT ![w] = "sleeping"]
            /\ rlLoc' = [rlLoc EXCEPT ![w] = [domain |-> d, delay |-> delay,
                                              wake |-> next_access[d]]]
            /\ UNCHANGED << next_access, lastReturn >>
       ELSE /\ next_access' = [next_access EXCEPT ![d] = now + delay]
            /\ lock' = [lock EXCEPT ![d] = Free]
            /\ rlPc' = [rlPc EXCEPT ![w] = "in_flight"]
            /\ rlLoc' = [rlLoc EXCEPT ![w] = [domain |-> d, delay |-> 0, wake |-> 0]]
            /\ lastReturn' = [lastReturn EXCEPT ![d] = now]

\* a task calls wait(domain): it takes the lock when it is free, else it queues
WaitCall(w) ==
  /\ rlPc[w] = "idle"
  /\ \E d \in Domains :
       IF lock[d] = Free
         THEN WaitEnter(w, d)
         ELSE /\ rlPc' = [rlPc EXCEPT ![w] = "acquire"]
              /\ rlLoc' = [rlLoc EXCEPT ![w].domain = d]
              /\ UNCHANGED << next_access, lock, lastReturn >>
  /\ UNCHANGED << crawlVars, now, rate_limits, delayUpdate >>

\* a queued task obtains the released lock
WaitAcquire(w) ==
  /\ rlPc[w] = "acquire"
  /\ lock[rlLoc[w].domain] = Free
  /\ WaitEnter(w, rlLoc[w].domain)
  /\ UNCHANGED << crawlVars, now, rate_limits, delayUpdate >>

\* wait lines 19-20: asyncio.sleep is over; next_access is committed with the
\* delay read before the sleep; the lock is released and wait returns
WaitWake(w) ==
  /\ rlPc[w] = "sleeping"
  /\ now >= rlLoc[w].wake
  /\ LET d == rlLoc[w].domain
     IN /\ next_access' = [next_access EXCEPT ![d] = now + rlLoc[w].delay]
        /\ lock' = [lock EXCEPT ![d] = Free]
        /\ lastReturn' = [lastReturn EXCEPT ![d] = now]
        /\ rlPc' = [rlPc EXCEPT ![w] = "in_flight"]
        /\ rlLoc' = [rlLoc EXCEPT ![w] = [domain |-> d, delay |-> 0, wake |-> 0]]
  /\ UNCHANGED << crawlVars, now, rate_limits, delayUpdate >>

\* the request that followed wait is answered; the task may call wait again
RequestDone(w) ==
  /\ rlPc[w] = "in_flight"
  /\ rlPc' = [rlPc EXCEPT ![w] = "idle"]
  /\ rlLoc' = [rlLoc EXCEPT ![w] = [domain |-> NoDomain, delay |-> 0, wake |-> 0]]
  /\ UNCHANGED << crawlVars, now, next_access, rate_limits, delayUpdate, lock, lastReturn >>

\* update_custom_delay that returns early only on a negative delay
LimitsAfterUpdateZero(limits, d, delay) ==
  IF delay < 0 THEN limits ELSE [limits EXCEPT ![d] = delay]

\* RateLimiter.update_custom_delay, called by the robots checker on Crawl-delay
LimitsAfterUpdate(limits, d, delay) ==
  IF delay <= 0 THEN limits ELSE [limits EXCEPT ![d] = delay]

UpdateCustomDelay ==
  /\ \E d \in Domains, delay \in DelayChoices :
       /\ rate_limits' = LimitsAfterUpdate(rate_limits, d, delay)
       /\ delayUpdate' = [domain |-> d, delay |-> delay]
  /\ UNCHANGED << crawlVars, now, next_access, lock, rlPc, rlLoc, lastReturn >>

\* one second passes
Tick ==
  /\ now < MaxTime
  /\ now' = now + 1
  /\ UNCHANGED << crawlVars, next_access, rate_limits, delayUpdate, lock, rlPc, rlLoc, lastReturn >>

RateStep(w) ==
  \/ WaitCall(w)
  \/ WaitAcquire(w)
  \/ WaitWake(w)
  \/ RequestDone(w)

\* ---------------------------------------------------------- robots checker
\* can_fetch returns: the answer is computed from the parser that
\* _get_robots_data returned, the origin lock having been released
RobotsAnswer(w, u, o, waited, fetched, parser, basis) ==
  /\ robPc' = [robPc EXCEPT ![w] = "answered"]
  /\ robLoc' = [robLoc EXCEPT ![w] = [url |-> u, origin |-> o, waited |-> waited,
                                      fetched |-> fetched, basis |-> basis,
                                      answer |-> RobotsDecision(parser, u)]]

\* _get_robots_data lines 65-70 once the origin lock is held: a valid cache
\* entry is returned at once; otherwise the robots.txt request is sent and
\* the lock is kept while it is in flight
RobotsEnter(w, u, o, waited) ==
  IF CacheValid(robots_cache[o], now)
    THEN /\ RobotsAnswer(w, u, o, waited, FALSE, robots_cache[o].parser, robotsOutcome[o])
         /\ UNCHANGED << robots_cache, robotsLock, robotsOutcome >>
    ELSE /\ robotsLock' = [robotsLock EXCEPT ![o] = w]
         /\ robPc' = [robPc EXCEPT ![w] = "fetching"]
         /\ robLoc' = [robLoc EXCEPT ![w] = [url |-> u, origin |-> o, waited |-> waited,
                                             fetched |-> TRUE, basis |-> "none",
                                             answer |-> FALSE]]
         /\ UNCHANGED << robots_cache, robotsOutcome >>

\* a task calls can_fetch(user_agent, url) for a URL of the web: it takes the origin lock when it
\* is free, else it waits for it
RobotsCall(w) ==
  /\ robPc[w] = "idle"
  /\ RespectRobotsTxt
  /\ \E u \in universe :
       IF LockIsFree(robotsLock[Origin(u)])
         THEN RobotsEnter(w, u, Origin(u), FALSE)
         ELSE /\ robPc' = [robPc EXCEPT ![w] = "acquire"]
              /\ robLoc' = [robLoc EXCEPT ![w].url = u, ![w].origin = Origin(u),
                                          ![w].waited = TRUE]
              /\ UNCHANGED << robots_cache, robotsLock, robotsOutcome >>
  /\ UNCHANGED << crawlCore, apiVars, serviceVars, bloomOps, resetOps, outputOps, validOps, normOps, backendRateOps, rateVars >>

\* a waiting task obtains the released origin lock
RobotsAcquire(w) ==
  /\ robPc[w] = "acquire"
  /\ LockIsFree(robotsLock[robLoc[w].origin])
  /\ RobotsEnter(w, robLoc[w].url, robLoc[w].origin, TRUE)
  /\ UNCHANGED << crawlCore, apiVars, serviceVars, bloomOps, resetOps, outputOps, validOps, normOps, backendRateOps, rateVars >>

\* _get_robots_data lines 73-75 and 81-83: no content, or parse() raised: an
\* entry without parser is cached, the lock is released, can_fetch says no
RobotsFailed(w, kind) ==
  LET o == robLoc[w].origin
  IN /\ robots_cache' = [robots_cache EXCEPT ![o] =
                           [status |-> kind, timestamp |-> now, parser |-> NoParser]]
     /\ robotsOutcome' = [robotsOutcome EXCEPT ![o] = kind]
     /\ robotsLock' = [robotsLock EXCEPT ![o] = Free]
     /\ RobotsAnswer(w, robLoc[w].url, o, robLoc[w].waited, TRUE, NoParser, kind)
     /\ UNCHANGED << rate_limits, delayUpdate >>

\* _get_robots_data lines 71-93 with content: an empty content is not parsed;
\* a Crawl-delay of the parsed file goes to the rate limiter; the parser is
\* cached, the lock is released, can_fetch asks the parser
RobotsParsed(w, kind, parser, delay) ==
  LET o == robLoc[w].origin
  IN /\ robots_cache' = [robots_cache EXCEPT ![o] =
                           [status |-> "success", timestamp |-> now, parser |-> parser]]
     /\ robotsOutcome' = [robotsOutcome EXCEPT ![o] = kind]
     /\ robotsLock' = [robotsLock EXCEPT ![o] = Free]
     /\ IF delay = NoCrawlDelay
          THEN UNCHANGED << rate_limits, delayUpdate >>
          ELSE /\ rate_limits' = LimitsAfterUpdate(rate_limits, o, delay)
               /\ delayUpdate' = [domain |-> o, delay |-> delay]
     /\ RobotsAnswer(w, robLoc[w].url, o, robLoc[w].waited, TRUE, parser, kind)

\* _fetch_robots_txt lines 45-61: the response to the robots.txt request.
\* 401, 403, 404 and 410 give the empty content; a 200 goes on to read the
\* body; a redirect, another status, a timeout or a client error give None
RobotsResponse(w) ==
  /\ robPc[w] = "fetching"
  /\ \/ /\ robPc' = [robPc EXCEPT ![w] = "reading"]
        /\ UNCHANGED << robots_cache, robotsLock, robLoc, robotsOutcome, rate_limits, delayUpdate >>
     \/ RobotsParsed(w, "permissive", NewParser, NoCrawlDelay)
     \/ RobotsFailed(w, "fetch_error")
  /\ UNCHANGED << crawlCore, apiVars, serviceVars, bloomOps, resetOps, outputOps, validOps, normOps, backendRateOps, now, next_access, lock, rlPc, rlLoc,
                  lastReturn >>

\* _fetch_robots_txt lines 47-50: the body of a 200 arrives (or reading it
\* fails); an HTML page counts as the empty content
RobotsBody(w) ==
  /\ robPc[w] = "reading"
  /\ \/ RobotsParsed(w, "permissive", NewParser, NoCrawlDelay)
     \/ \E rules \in SUBSET { u \in universe : Origin(u) = robLoc[w].origin },
           delay \in DelayChoices :
          RobotsParsed(w, "rules", ParserParse(NewParser, rules), delay)
     \/ RobotsFailed(w, "parse_error")
     \/ RobotsFailed(w, "fetch_error")
  /\ UNCHANGED << crawlCore, apiVars, serviceVars, bloomOps, resetOps, outputOps, validOps, normOps, backendRateOps, now, next_access, lock, rlPc, rlLoc,
                  lastReturn >>

\* the caller of can_fetch has used the answer
RobotsDone(w) ==
  /\ robPc[w] = "answered"
  /\ robPc' = [robPc EXCEPT ![w] = "idle"]
  /\ robLoc' = [robLoc EXCEPT ![w] = RobLocInit]
  /\ UNCHANGED << crawlCore, apiVars, serviceVars, bloomOps, resetOps, outputOps, validOps, normOps, backendRateOps, rateVars, robots_cache, robotsLock,
                  robotsOutcome >>

RobotsStep(w) ==
  \/ RobotsCall(w)
  \/ RobotsAcquire(w)
  \/ RobotsResponse(w)
  \/ RobotsBody(w)
  \/ RobotsDone(w)

\* ------------------------------------- CrawlerEngine (backend) and service
\* The tasks of Workers are here the worker tasks of CrawlerEngine.run with
\* config.workers = 1: one is spawned by the first run, the other by the run
\* that resume_crawler starts.  The rate limiter and the robots checker are
\* awaited; their own state is that of their specifications.
EngineFirstRun == {"w1"}
engineFrame == << config, otherTasks, rateVars, engineTasks, fetches >>

\* worker() lines 340-342 and 308: a sleep, then back to the while-condition
EngineToSleep(w) ==
  /\ pc' = [pc EXCEPT ![w] = "e_sleep"]
  /\ loc' = [loc EXCEPT ![w] = LocInit]

\* mark_completed(url) is called; after says what follows it
EngineCallMarkCompleted(w, after) ==
  /\ pc' = [pc EXCEPT ![w] = "e_mc_srem"]
  /\ loc' = [loc EXCEPT ![w].target = loc[w].url, ![w].after = after]

\* worker() line 296: the while-condition
EngineLoop(w) ==
  /\ pc[w] = "e_loop"
  /\ pc' = [pc EXCEPT ![w] = IF running THEN "e_zcard" ELSE "e_finished"]
  /\ UNCHANGED << engineFrame, frontier, bloom, running, metrics, clock, loc,
                  addOk, emitted, popHistory >>

\* the sleep of the worker ends
EngineSleep(w) ==
  /\ pc[w] = "e_sleep"
  /\ pc' = [pc EXCEPT ![w] = "e_loop"]
  /\ UNCHANGED << engineFrame, frontier, bloom, running, metrics, clock, loc,
                  addOk, emitted, popHistory >>

\* get_url lines 98-100: ZCARD answers (it is only logged)
EngineZcard(w) ==
  /\ pc[w] = "e_zcard"
  /\ pc' = [pc EXCEPT ![w] = "e_zpopmin"]
  /\ UNCHANGED << engineFrame, frontier, bloom, running, metrics, clock, loc,
                  addOk, emitted, popHistory >>

\* get_url lines 101-107: ZPOPMIN; an empty reply makes the worker sleep
EngineZpopmin(w) ==
  /\ pc[w] = "e_zpopmin"
  /\ IF queue = {}
       THEN /\ EngineToSleep(w)
            /\ UNCHANGED << queue, lastPop >>
       ELSE \E e \in MinEntries(queue) :
              /\ queue' = queue \ {e}
              /\ lastPop' = [entry |-> e, rest |-> queue \ {e}]
              /\ loc' = [loc EXCEPT ![w].url = e.url, ![w].depth = e.depth]
              /\ pc' = [pc EXCEPT ![w] = "e_sadd"]
  /\ UNCHANGED << engineFrame, seen, processing, completed, bloom, running, metrics,
                  clock, addOk, emitted, popped, failed >>

\* get_url lines 110-116: SADD processing; a reply of 1 returns the record to
\* worker(), which tests the page limit (line 315) and calls crawl_page, whose
\* code up to the first await tests and sets the bloom filter (lines 160-171);
\* crawl_page returning None counts an error and goes on to line 338
EngineSadd(w) ==
  /\ pc[w] = "e_sadd"
  /\ IF SaddIsNew(processing, loc[w].url)
       THEN /\ processing' = processing \cup {loc[w].url}
            /\ popped' = [popped EXCEPT ![loc[w].url] = Min(@ + 1, MaxPops)]
            /\ IF PageCapReached(metrics)
                 THEN /\ pc' = [pc EXCEPT ![w] = "e_finished"]
                      /\ UNCHANGED << loc, bloom, metrics >>
                 ELSE IF BloomContains(bloom, loc[w].url)
                   THEN /\ metrics' = [metrics EXCEPT !.errors = @ + 1]
                        /\ EngineCallMarkCompleted(w, "e_sleep")
                        /\ UNCHANGED bloom
                   ELSE /\ bloom' = BloomAdd(bloom, loc[w].url)
                        /\ pc' = [pc EXCEPT ![w] = "e_rate_wait"]
                        /\ UNCHANGED << loc, metrics >>
       ELSE /\ pc' = [pc EXCEPT ![w] = "e_zcard"]
            /\ loc' = [loc EXCEPT ![w] = LocInit]
            /\ UNCHANGED << processing, popped, bloom, metrics >>
  /\ UNCHANGED << engineFrame, queue, seen, completed, running, clock, addOk, emitted,
                  lastPop, failed >>

\* crawl_page line 171: rate_limiter.wait_if_needed returns
EngineRateWait(w) ==
  /\ pc[w] = "e_rate_wait"
  /\ pc' = [pc EXCEPT ![w] = "e_can_fetch"]
  /\ UNCHANGED << engineFrame, frontier, bloom, running, metrics, clock, loc,
                  addOk, emitted, popHistory >>

\* crawl_page lines 174-185: robots_checker.can_fetch answers
EngineCanFetch(w) ==
  /\ pc[w] = "e_can_fetch"
  /\ \E allowed \in BOOLEAN :
       IF allowed
         THEN /\ pc' = [pc EXCEPT ![w] = "e_fetch"]
              /\ UNCHANGED << loc, metrics >>
         ELSE /\ metrics' = [metrics EXCEPT !.robots_denied = @ + 1]
              /\ EngineCallMarkCompleted(w, "e_none")
  /\ UNCHANGED << engineFrame, frontier, bloom, running, clock, addOk, emitted,
                  popHistory >>

\* crawl_page lines 185-202 and 249-260: the response arrives: a page, a
\* status other than 200 or a content type that is not allowed, or an exception
EngineFetch(w) ==
  /\ pc[w] = "e_fetch"
  /\ \/ /\ pc' = [pc EXCEPT ![w] = "e_read_body"]
        /\ UNCHANGED loc
     \/ EngineCallMarkCompleted(w, "e_none")
     \/ /\ pc' = [pc EXCEPT ![w] = "e_mark_failed"]
        /\ UNCHANGED loc
  /\ UNCHANGED << engineFrame, frontier, bloom, running, metrics, clock, addOk,
                  emitted, popHistory >>

\* crawl_page lines 202-212: the body arrives; the size gate; extract is called
EngineReadBody(w) ==
  /\ pc[w] = "e_read_body"
  /\ \/ /\ pc' = [pc EXCEPT ![w] = "e_extract"]
        /\ UNCHANGED loc
     \/ EngineCallMarkCompleted(w, "e_none")
     \/ /\ pc' = [pc EXCEPT ![w] = "e_mark_failed"]
        /\ UNCHANGED loc
  /\ UNCHANGED << engineFrame, frontier, bloom, running, metrics, clock, addOk,
                  emitted, popHistory >>

\* crawl_page returns the extracted data: worker() lines 322-328 count the
\* page and call _save_document
EngineReturnData(w) ==
  /\ metrics' = [metrics EXCEPT !.pages_crawled = @ + 1]
  /\ pc' = [pc EXCEPT ![w] = "e_save"]
  /\ loc' = [loc EXCEPT ![w].links = {}, ![w].link = NoURL, ![w].entry = << >>]

\* the link loop of crawl_page lines 221-241
EngineNextLink(w, todo) ==
  IF todo = {}
    THEN EngineReturnData(w)
    ELSE /\ \E l \in todo :
              /\ pc' = [pc EXCEPT ![w] = "e_link_completed"]
              /\ loc' = [loc EXCEPT ![w].links = todo \ {l}, ![w].link = l,
                                    ![w].entry = << >>]
         /\ UNCHANGED metrics

\* crawl_page lines 212-221: content_extractor.extract returns the links
EngineExtract(w) ==
  /\ pc[w] = "e_extract"
  /\ \E links \in SUBSET universe :
       IF DepthAllowsLinks(loc[w].depth)
         THEN EngineNextLink(w, links)
         ELSE EngineReturnData(w)
  /\ UNCHANGED << engineFrame, frontier, bloom, running, clock, addOk, emitted,
                  popHistory >>

\* crawl_page lines 228-231: is_url_completed(link), bloom test, add_url called
EngineLinkCompleted(w) ==
  /\ pc[w] = "e_link_completed"
  /\ IF Sismember(completed, loc[w].link) \/ BloomContains(bloom, loc[w].link)
       THEN EngineNextLink(w, loc[w].links)
       ELSE /\ pc' = [pc EXCEPT ![w] = "e_add_sismember"]
            /\ UNCHANGED << loc, metrics >>
  /\ UNCHANGED << engineFrame, frontier, bloom, running, clock, addOk, emitted,
                  popHistory >>

\* add_url: SISMEMBER completed
EngineAddSismember(w) ==
  /\ pc[w] = "e_add_sismember"
  /\ IF Sismember(completed, loc[w].link)
       THEN EngineNextLink(w, loc[w].links)
       ELSE /\ pc' = [pc EXCEPT ![w] = "e_add_sadd"]
            /\ UNCHANGED << loc, metrics >>
  /\ UNCHANGED << engineFrame, frontier, bloom, running, clock, addOk, emitted,
                  popHistory >>

\* add_url: SADD seen; on a reply of 1 the record is built (time.time())
EngineAddSadd(w) ==
  /\ pc[w] = "e_add_sadd"
  /\ IF SaddIsNew(seen, loc[w].link)
       THEN /\ seen' = seen \cup {loc[w].link}
            /\ loc' = [loc EXCEPT ![w].entry =
                         [url |-> loc[w].link, depth |-> loc[w].depth + 1,
                          priority |-> EngineCalculatePriority(loc[w].link, loc[w].depth + 1),
                          added_at |-> clock]]
            /\ clock' = clock + 1
            /\ pc' = [pc EXCEPT ![w] = "e_add_zadd"]
            /\ UNCHANGED metrics
       ELSE /\ EngineNextLink(w, loc[w].links)
            /\ UNCHANGED << seen, clock >>
  /\ UNCHANGED << engineFrame, queue, processing, completed, bloom, running, addOk,
                  emitted, popHistory >>

\* add_url: ZADD queue, return True
EngineAddZadd(w) ==
  /\ pc[w] = "e_add_zadd"
  /\ queue' = queue \cup {loc[w].entry}
  /\ addOk' = [addOk EXCEPT ![loc[w].link] = @ + 1]
  /\ EngineNextLink(w, loc[w].links)
  /\ UNCHANGED << engineFrame, seen, processing, completed, bloom, running, clock,
                  emitted, popHistory >>

\* _save_document lines 356-374 returns; worker() line 338 calls mark_completed
EngineSave(w) ==
  /\ pc[w] = "e_save"
  /\ IF EnableKafkaOutput \/ EnableLocalSave
       THEN \E saved \in BOOLEAN :
              emitted' = [emitted EXCEPT ![loc[w].url] = IF saved THEN @ + 1 ELSE @]
       ELSE UNCHANGED emitted
  /\ EngineCallMarkCompleted(w, "e_sleep")
  /\ UNCHANGED << engineFrame, frontier, bloom, running, metrics, clock, addOk,
                  popHistory >>

\* mark_completed: SREM processing
EngineMcSrem(w) ==
  /\ pc[w] = "e_mc_srem"
  /\ processing' = processing \ {loc[w].target}
  /\ pc' = [pc EXCEPT ![w] = "e_mc_sadd"]
  /\ UNCHANGED << engineFrame, queue, seen, completed, bloom, running, metrics,
                  clock, loc, addOk, emitted, popHistory >>

\* mark_completed: SADD completed.  When crawl_page made the call it returns
\* None: worker() counts an error and calls mark_completed itself (line 338);
\* after the call of worker() comes the sleep of line 342
EngineMcSadd(w) ==
  /\ pc[w] = "e_mc_sadd"
  /\ completed' = completed \cup {loc[w].target}
  /\ IF loc[w].after = "e_none"
       THEN /\ metrics' = [metrics EXCEPT !.errors = @ + 1]
            /\ EngineCallMarkCompleted(w, "e_sleep")
       ELSE /\ EngineToSleep(w)
            /\ UNCHANGED metrics
  /\ UNCHANGED << engineFrame, queue, seen, processing, bloom, running, clock,
                  addOk, emitted, popHistory >>

\* crawl_page lines 249-260: mark_failed (SREM processing), None is returned;
\* worker() counts an error and calls mark_completed (line 338)
EngineMarkFailed(w) ==
  /\ pc[w] = "e_mark_failed"
  /\ processing' = processing \ {loc[w].url}
  /\ failed' = failed \cup {loc[w].url}
  /\ metrics' = [metrics EXCEPT !.errors = @ + 1]
  /\ EngineCallMarkCompleted(w, "e_sleep")
  /\ UNCHANGED << engineFrame, queue, seen, completed, bloom, running, clock,
                  addOk, emitted, popped, lastPop >>

\* ------------------------------------------------------------ BloomFilter
\* The filter under its callers: add, contains and clear in any order, on
\* URL strings and on an item that is not a string.
NonStrings == {"<not a str>"}
BloomItems == URLs \cup NonStrings
IsString(item) == item \notin NonStrings
bloomFrame == << config, frontier, running, metrics, clock, pc, loc, engineTasks, history,
                 popHistory, apiVars, robotsVars, serviceVars, resetOps, outputOps, validOps, normOps, backendRateOps,
                 rateVars >>

\* BloomFilter.add lines 29-38
BloomFilterAdd(item) ==
  /\ items_added_count < MaxAdds
  /\ IF IsString(item)
       THEN /\ bloom' = BloomAdd(bloom, item)
            /\ items_added_count' = items_added_count + 1
            /\ bloomAdded' = bloomAdded \cup {item}
       ELSE UNCHANGED << bloom, items_added_count, bloomAdded >>
  /\ bloomCall' = [op |-> "add", item |-> item, result |-> FALSE]
  /\ UNCHANGED bloomFrame

\* BloomFilter.contains lines 40-49
BloomFilterContains(item) ==
  /\ bloomCall' = [op |-> "contains", item |-> item,
                   result |-> IsString(item) /\ BloomContains(bloom, item)]
  /\ UNCHANGED << bloomFrame, bloom, items_added_count, bloomAdded >>

\* BloomFilter.clear lines 98-102
BloomFilterClear ==
  /\ bloom' = {}
  /\ items_added_count' = 0
  /\ bloomAdded' = {}
  /\ bloomCall' = [op |-> "clear", item |-> NoURL, result |-> FALSE]
  /\ UNCHANGED bloomFrame

EngineWorkerStep(w) ==
  \/ EngineLoop(w)
  \/ EngineSleep(w)
  \/ EngineZcard(w)
  \/ EngineZpopmin(w)
  \/ EngineSadd(w)
  \/ EngineRateWait(w)
  \/ EngineCanFetch(w)
  \/ EngineFetch(w)
  \/ EngineReadBody(w)
  \/ EngineExtract(w)
  \/ EngineLinkCompleted(w)
  \/ EngineAddSismember(w)
  \/ EngineAddSadd(w)
  \/ EngineAddZadd(w)
  \/ EngineSave(w)
  \/ EngineMcSrem(w)
  \/ EngineMcSadd(w)
  \/ EngineMarkFailed(w)

pauseFrame == << config, apiVars, robotsVars, bloomOps, resetOps, outputOps, validOps, normOps, backendRateOps, rateVars, engineTasks, frontier, bloom,
                 metrics, clock, loc, history, popHistory >>

\* pause_crawler lines 153-167: the engine is running; engine.stop() clears
\* running
PauseCrawler ==
  /\ svcPc = "idle"
  /\ running
  /\ running' = FALSE
  /\ atPause' = [active |-> TRUE, queue |-> { e.url : e \in queue }, seen |-> seen,
                 completed |-> completed]
  /\ UNCHANGED << pauseFrame, pc, svcPc >>

\* resume_crawler lines 196-216: the engine is not running; the job is marked
\* as running (awaited)
ResumeCrawler ==
  /\ svcPc = "idle"
  /\ ~running
  /\ atPause.active
  /\ \E w \in Workers : pc[w] = "e_unborn"
  /\ svcPc' = "resuming"
  /\ UNCHANGED << pauseFrame, pc, running, atPause >>

\* resume_crawler line 225 and run() lines 393-405: the engine task starts,
\* sets running and spawns the worker task
EngineRun ==
  /\ svcPc = "resuming"
  /\ svcPc' = "idle"
  /\ running' = TRUE
  /\ atPause' = NotPaused
  /\ \E w \in Workers :
       /\ pc[w] = "e_unborn"
       /\ pc' = [pc EXCEPT ![w] = "e_loop"]
  /\ UNCHANGED pauseFrame

ServiceStep ==
  \/ PauseCrawler
  \/ ResumeCrawler
  \/ EngineRun

\* ------------------------------------------------------- frontier resets
\* clear_specific_data lines 136-149: the keys named by the flags
ClearKeysWithSeen(clear_completed, clear_seen, clear_processing, clear_queue) ==
  (IF clear_completed THEN {"completed"} ELSE {}) \cup {"seen"}
    \cup (IF clear_processing THEN {"processing"} ELSE {})
    \cup (IF clear_queue THEN {"queue"} ELSE {})
ClearKeys(clear_completed, clear_seen, clear_processing, clear_queue) ==
  (IF clear_completed THEN {"completed"} ELSE {})
    \cup (IF clear_seen THEN {"seen"} ELSE {})
    \cup (IF clear_processing THEN {"processing"} ELSE {})
    \cup (IF clear_queue THEN {"queue"} ELSE {})

\* redis DEL key [key ...]: the value left under a key
RedisDeleteKeepsSeen(keys, key, value) == IF key \in keys /\ key # "seen" THEN {} ELSE value
RedisDelete(keys, key, value) == IF key \in keys THEN {} ELSE value

resetFrame == << config, bloom, running, metrics, clock, pc, loc, engineTasks, history,
                 popHistory, apiVars, robotsVars, serviceVars, bloomOps, outputOps, validOps, normOps, backendRateOps,
                 rateVars >>

\* the DEL command of a reset call
DeleteKeys(keys) ==
  /\ queue' = RedisDelete(keys, "queue", queue)
  /\ seen' = RedisDelete(keys, "seen", seen)
  /\ processing' = RedisDelete(keys, "processing", processing)
  /\ completed' = RedisDelete(keys, "completed", completed)

\* clear_specific_data lines 132-149: the flagged keys are counted in this
\* order, one SCARD or ZCARD each
CountOrder == << "completed", "seen", "processing", "queue" >>
NextToCount(keys, counts) ==
  IF \E i \in 1..Len(CountOrder) : CountOrder[i] \in keys /\ counts[CountOrder[i]] = -1
  THEN CountOrder[CHOOSE i \in 1..Len(CountOrder) :
                    /\ CountOrder[i] \in keys /\ counts[CountOrder[i]] = -1
                    /\ \A j \in 1..(i - 1) :
                         ~(CountOrder[j] \in keys /\ counts[CountOrder[j]] = -1)]
  ELSE "none"

\* redis SCARD key / ZCARD key
RedisCard(key) ==
  CASE key = "completed" -> Cardinality(completed)
    [] key = "seen" -> Cardinality(seen)
    [] key = "processing" -> Cardinality(processing)
    [] OTHER -> Cardinality(queue)

\* the flag combinations a caller passes, as << clear_completed, clear_seen,
\* clear_processing, clear_queue >>: the defaults of clear_specific_data (none),
\* the defaults of reset_crawl_status (completed and seen), one flag, the two
\* sets a worker moves a URL between, and all four
ClearFlags ==
  { << FALSE, FALSE, FALSE, FALSE >>, << TRUE, TRUE, FALSE, FALSE >>,
    << FALSE, TRUE, FALSE, FALSE >>, << TRUE, FALSE, TRUE, FALSE >>,
    << TRUE, TRUE, TRUE, TRUE >> }

\* clear_specific_data lines 128-131 and 150-160 when no flag is set: no
\* Redis command is sent and the report is returned; otherwise the first
\* count is sent
ClearSpecificData ==
  /\ resetCall.n < MaxResets
  /\ clearLoc.pc = "idle"
  /\ \E flags \in ClearFlags :
       LET keys == ClearKeys(flags[1], flags[2], flags[3], flags[4])
       IN IF keys = {}
            THEN /\ clearLoc' = NoClear
                 /\ resetCall' = [n |-> resetCall.n + 1, op |-> "clear_specific_data",
                                  clear_seen |-> flags[2]]
            ELSE /\ clearLoc' = [clearLoc EXCEPT !.pc = "count", !.clear_seen = flags[2],
                                                  !.keys = keys, !.counts = NoCounts]
                 /\ UNCHANGED resetCall
  /\ UNCHANGED << resetFrame, frontier >>

\* clear_specific_data lines 132-149: the reply of one SCARD or ZCARD
ClearCount ==
  /\ clearLoc.pc = "count"
  /\ clearLoc' = [clearLoc EXCEPT
                    !.counts[NextToCount(clearLoc.keys, clearLoc.counts)] =
                       RedisCard(NextToCount(clearLoc.keys, clearLoc.counts)),
                    !.pc = IF NextToCount(clearLoc.keys,
                                          [clearLoc.counts EXCEPT
                                             ![NextToCount(clearLoc.keys, clearLoc.counts)] = 0])
                              = "none"
                           THEN "delete" ELSE "count"]
  /\ UNCHANGED << resetFrame, frontier, resetCall >>

\* clear_specific_data whose DEL also names the processing set
ClearDeleteWithProcessing ==
  /\ clearLoc.pc = "delete"
  /\ DeleteKeys(clearLoc.keys \cup {"processing"})
  /\ clearLoc' = NoClear
  /\ resetCall' = [n |-> resetCall.n + 1, op |-> "clear_specific_data",
                   clear_seen |-> clearLoc.clear_seen]
  /\ UNCHANGED resetFrame

\* clear_specific_data lines 150-160: DEL of the flagged keys, then the
\* report is returned: the keys and the counts held in clearLoc
ClearDelete ==
  /\ clearLoc.pc = "delete"
  /\ DeleteKeys(clearLoc.keys)
  /\ clearLoc' = NoClear
  /\ resetCall' = [n |-> resetCall.n + 1, op |-> "clear_specific_data",
                   clear_seen |-> clearLoc.clear_seen]
  /\ UNCHANGED resetFrame

\* clear_all_frontier_data lines 120-126
ClearAllFrontierData ==
  /\ resetCall.n < MaxResets
  /\ clearLoc.pc = "idle"
  /\ DeleteKeys({"queue", "seen", "processing", "completed"})
  /\ resetCall' = [n |-> resetCall.n + 1, op |-> "clear_all_frontier_data",
                   clear_seen |-> TRUE]
  /\ UNCHANGED << resetFrame, clearLoc >>

\* ------------------------------------------------ configuration and sinks
\* CrawlerConfig.validate lines 154-175: the first check that fails raises
Validate(c) ==
  IF c.enable_kafka_output /\ c.enable_local_save THEN "Dual output enabled"
  ELSE IF c.enable_kafka_output /\ ~c.kafka_brokers THEN "No Kafka brokers"
  ELSE IF c.enable_local_save /\ ~c.local_output_dir THEN "No output dir"
  ELSE IF c.workers < 1 THEN "Invalid workers"
  ELSE IF c.max_depth < 0 THEN "Invalid max depth"
  ELSE IF c.max_pages < 0 THEN "Invalid max pages"
  ELSE IF c.default_delay < 0 THEN "Invalid delay"
  ELSE IF \E v \in c.rate_limits : v < 0 THEN "Invalid rate"
  ELSE IF ~c.bloom_capacity.is_int \/ c.bloom_capacity.value <= 0 THEN "Invalid bloom capacity"
  ELSE IF ~c.bloom_error_rate.is_float
          \/ ~(0 < c.bloom_error_rate.value /\ c.bloom_error_rate.value < 1000)
    THEN "Invalid bloom rate"
  ELSE "ok"

\* the configurations a request of update_config can leave
ConfigChoices ==
  [enable_kafka_output : BOOLEAN, enable_local_save : BOOLEAN, kafka_brokers : BOOLEAN,
   local_output_dir : BOOLEAN, workers : {0, 3}, max_depth : {3}, max_pages : {4000},
   default_delay : {2}, rate_limits : {{}},
   bloom_capacity : {[is_int |-> TRUE, value |-> 10000000]},
   bloom_error_rate : {[is_float |-> TRUE, value |-> 1], [is_float |-> TRUE, value |-> 1500]}]

outputFrame == << config, frontier, bloom, running, clock, pc, loc, engineTasks, history,
                  popHistory, apiVars, robotsVars, serviceVars, bloomOps, resetOps, validOps, normOps, backendRateOps,
                  rateVars >>

\* update_config lines 337-351: every key of the request is set on the
\* config object, then validate is called; a ValueError is answered with 500
\* and the object keeps the values that were set
UpdateConfig ==
  /\ \E c \in ConfigChoices :
       /\ cfg' = c
       /\ validation' = Validate(c)
  /\ UNCHANGED << outputFrame, metrics, sinks, emitPc, emitDoc >>

\* WebCrawler.initialize lines 290-317: the producer is started when the bus
\* output is enabled and the directory is made when local save is enabled;
\* either may fail
InitializeSinks ==
  /\ emitPc = "idle"
  /\ \E started, made \in BOOLEAN :
       sinks' = [sinks EXCEPT !.producer = cfg.enable_kafka_output /\ started,
                              !.local_output_path = cfg.enable_local_save /\ made]
  /\ UNCHANGED << outputFrame, metrics, cfg, validation, emitPc, emitDoc >>

\* crawl_page lines 491-513: a document is ready; the bus output is tried
\* when it is enabled, the local save only otherwise (elif)
EmitDocument ==
  /\ emitPc = "idle"
  /\ sinks.documents < MaxDocuments
  /\ sinks' = [sinks EXCEPT !.documents = @ + 1]
  /\ LET both == cfg.enable_kafka_output /\ cfg.enable_local_save
     IN IF cfg.enable_kafka_output
          THEN IF sinks.producer
                 THEN /\ emitPc' = "send_and_wait"
                      /\ emitDoc' = [both_enabled |-> both, kafka |-> "none", local |-> "none"]
                 ELSE /\ emitPc' = "idle"
                      /\ emitDoc' = [both_enabled |-> both, kafka |-> "no producer",
                                     local |-> "none"]
          ELSE IF cfg.enable_local_save
            THEN /\ emitPc' = "save_locally"
                 /\ emitDoc' = [both_enabled |-> both, kafka |-> "none", local |-> "none"]
            ELSE /\ emitPc' = "idle"
                 /\ emitDoc' = [both_enabled |-> both, kafka |-> "none", local |-> "none"]
  /\ UNCHANGED << outputFrame, metrics, cfg, validation >>

\* crawl_page lines 497-503: producer.send_and_wait returns or raises
EmitSendAndWait ==
  /\ emitPc = "send_and_wait"
  /\ \E sent \in BOOLEAN :
       IF sent
         THEN /\ sinks' = [sinks EXCEPT !.kafka = @ + 1]
              /\ emitDoc' = [emitDoc EXCEPT !.kafka = "sent"]
              /\ UNCHANGED metrics
         ELSE /\ metrics' = [metrics EXCEPT !.errors = @ + 1]
              /\ emitDoc' = [emitDoc EXCEPT !.kafka = "failed"]
              /\ UNCHANGED sinks
  /\ emitPc' = "idle"
  /\ UNCHANGED << outputFrame, cfg, validation >>

\* _save_document_locally lines 386-396
EmitSaveLocally ==
  /\ emitPc = "save_locally"
  /\ IF ~cfg.enable_local_save \/ ~sinks.local_output_path
       THEN /\ emitDoc' = [emitDoc EXCEPT !.local = "not saved"]
            /\ UNCHANGED sinks
       ELSE \E written \in BOOLEAN :
              IF written
                THEN /\ sinks' = [sinks EXCEPT !.files = @ + 1]
                     /\ emitDoc' = [emitDoc EXCEPT !.local = "saved"]
                ELSE /\ emitDoc' = [emitDoc EXCEPT !.local = "failed"]
                     /\ UNCHANGED sinks
  /\ emitPc' = "idle"
  /\ UNCHANGED << outputFrame, metrics, cfg, validation >>

\* ------------------------------------------------------- URL validity
\* A link is kept as what _is_valid_url reads of it: the scheme, the netloc
\* and whether the path ends with one of config.excluded_extensions.
LinkHosts == Domains \cup {"www.x.org"}
Links == [scheme : {"http", "https", "mailto"}, netloc : LinkHosts \cup {""},
          excluded : BOOLEAN]

\* ad.lower() in netloc_lower, on the hosts above
IsSubstring(ad, netloc) == ad = netloc \/ (ad = "x.org" /\ netloc = "www.x.org")

\* _is_valid_url lines 552-571
IsValidUrl(link, allowed) ==
  /\ link.scheme \in {"http", "https"}
  /\ link.netloc # ""
  /\ allowed # {} => \E ad \in allowed : IsSubstring(ad, link.netloc)
  /\ ~link.excluded

validFrame == << config, frontier, bloom, running, metrics, clock, pc, loc, engineTasks,
                 history, popHistory, apiVars, robotsVars, serviceVars, bloomOps, resetOps,
                 outputOps, normOps, backendRateOps, rateVars >>

\* handle_update_allowed_domains lines 163-195
UpdateAllowedDomains ==
  /\ \E action \in {"add", "remove", "replace"}, payload \in SUBSET Domains :
       LET new == CASE action = "add" -> domains.allowed_domains \cup payload
                    [] action = "remove" -> domains.allowed_domains \ payload
                    [] OTHER -> payload
       IN domains' = [domains EXCEPT !.configured = new, !.allowed_domains = new]
  /\ UNCHANGED << validFrame, validCall >>

\* run() lines 599-617: with no allowed domain and some seed, the hosts of the
\* seeds become config.allowed_domains
RunSetAllowedDomains ==
  /\ ~domains.run_started
  /\ domains' = [domains EXCEPT
                   !.run_started = TRUE,
                   !.allowed_domains = IF @ = {} /\ seeds # {}
                                         THEN { Origin(u) : u \in seeds }
                                         ELSE @]
  /\ UNCHANGED << validFrame, validCall >>

\* crawl_page line 524 and add_seed_urls: _is_valid_url is called for a link
IsValidUrlCall ==
  /\ \E link \in Links :
       validCall' = [link |-> link, configured |-> domains.configured,
                     result |-> IsValidUrl(link, domains.allowed_domains)]
  /\ UNCHANGED << validFrame, domains >>

WorkerStep(w) ==
  \/ WorkerLoop(w)
  \/ GetUrlZpopmin(w)
  \/ GetUrlSaddProcessing(w)
  \/ CrawlIsCompleted(w)
  \/ CrawlCanFetch(w)
  \/ CrawlStartFetch(w)
  \/ CrawlFetch(w)
  \/ CrawlRedirectCompleted(w)
  \/ CrawlReadBody(w)
  \/ CrawlEmit(w)
  \/ MarkCompletedSrem(w)
  \/ MarkCompletedSadd(w)
  \/ MarkFailed(w)
  \/ LinkIsCompleted(w)
  \/ AddUrlSismember(w)
  \/ AddUrlSadd(w)
  \/ AddUrlZadd(w)

\* The worker pool over the shared frontier.
Next == \E w \in Workers : WorkerStep(w)

Spec == Init /\ [][Next]_vars

\* The whole engine: workers, run loop and metrics reporter, on a web of two
\* pages; every task that can take a step eventually takes it (the asyncio
\* loop runs every ready task and every sleep ends).
InitEngine == InitWith({"A", "B"}, {{}, {"A"}}, {0, MaxPages})

NextEngine ==
  \/ \E w \in Workers : WorkerStep(w)
  \/ RunStep
  \/ ReportStep

FairnessEngine ==
  /\ \A w \in Workers : WF_vars(WorkerStep(w))
  /\ WF_vars(RunStep)
  /\ WF_vars(ReportStep)

SpecEngine == InitEngine /\ [][NextEngine]_vars /\ FairnessEngine

\* The rate limiter with its callers, the delay overrides and the clock.
NextRate ==
  \/ \E w \in Workers : RateStep(w)
  \/ UpdateCustomDelay
  \/ Tick

InitRateOnly == InitWith(URLs, {{"A"}}, {MaxPages})

SpecRate == InitRateOnly /\ [][NextRate]_vars

\* ------------------------------------ backend RateLimiter.wait_if_needed
\* wait_if_needed lines 42-43: current_time - last_request_times.get(domain, 0);
\* time.time() is the time since 1970, so a domain without entry is far back
TimeSinceLast(d) ==
  IF last_request_times[d] = NoRequest THEN MaxTime + DefaultDelay
  ELSE now - last_request_times[d]

\* wait_if_needed lines 36-52 up to its first await: the rate limit, the time
\* and the last request time are read; either the task sleeps for the rest of
\* the interval, or the last request time is written and the call returns
WaitIfNeededCall(w) ==
  /\ rlPc[w] = "idle"
  /\ \E d \in Domains :
       IF TimeSinceLast(d) < EffectiveDelay(rate_limits, d)
         THEN /\ rlPc' = [rlPc EXCEPT ![w] = "sleeping"]
              /\ rlLoc' = [rlLoc EXCEPT ![w] =
                             [domain |-> d, delay |-> EffectiveDelay(rate_limits, d),
                              wake |-> now + EffectiveDelay(rate_limits, d) - TimeSinceLast(d)]]
              /\ UNCHANGED << last_request_times, lastReturn >>
         ELSE /\ last_request_times' = [last_request_times EXCEPT ![d] = now]
              /\ lastReturn' = [lastReturn EXCEPT ![d] = now]
              /\ rlPc' = [rlPc EXCEPT ![w] = "in_flight"]
              /\ rlLoc' = [rlLoc EXCEPT ![w] = [domain |-> d, delay |-> 0, wake |-> 0]]
  /\ UNCHANGED << crawlCore, apiVars, robotsVars, serviceVars, bloomOps, resetOps, outputOps,
                  validOps, normOps, now, next_access, rate_limits, delayUpdate, lock >>

\* wait_if_needed lines 46-52: asyncio.sleep is over; the last request time
\* is written and the call returns
WaitIfNeededWake(w) ==
  /\ rlPc[w] = "sleeping"
  /\ now >= rlLoc[w].wake
  /\ last_request_times' = [last_request_times EXCEPT ![rlLoc[w].domain] = now]
  /\ lastReturn' = [lastReturn EXCEPT ![rlLoc[w].domain] = now]
  /\ rlPc' = [rlPc EXCEPT ![w] = "in_flight"]
  /\ rlLoc' = [rlLoc EXCEPT ![w] = [domain |-> rlLoc[w].domain, delay |-> 0, wake |-> 0]]
  /\ UNCHANGED << crawlCore, apiVars, robotsVars, serviceVars, bloomOps, resetOps, outputOps,
                  validOps, normOps, now, next_access, rate_limits, delayUpdate, lock >>

\* The backend rate limiter under the worker tasks of the engine: each calls
\* wait_if_needed for the domain of its URL, then makes its request.
NextBackendRate ==
  \/ \E w \in Workers : WaitIfNeededCall(w)
  \/ \E w \in Workers : WaitIfNeededWake(w)
  \/ \E w \in Workers : RequestDone(w)
  \/ Tick

SpecBackendRate == InitRateOnly /\ [][NextBackendRate]_vars

\* The rate limiter with reset_domain among its callers.
\* reset_domain lines 29-32: under the lock of the domain, the next_access
\* entry of the domain is deleted (0 stands for no entry)
ResetDomain ==
  /\ \E d \in Domains :
       /\ lock[d] = Free
       /\ next_access[d] # 0
       /\ next_access' = [next_access EXCEPT ![d] = 0]
  /\ UNCHANGED << crawlVars, now, rate_limits, delayUpdate, lock, rlPc, rlLoc, lastReturn >>

NextRateReset ==
  \/ \E w \in Workers : RateStep(w)
  \/ UpdateCustomDelay
  \/ ResetDomain
  \/ Tick

SpecRateReset == InitRateOnly /\ [][NextRateReset]_vars

\* The URLFrontier under its callers: the workers pop a URL and make the
\* frontier calls of crawl_page for it, the API handler adds URLs with the
\* priority of the request.  There is no page cap, so the workers keep
\* calling get_url; every task that can take a step eventually takes it.
CrawlPageCalls(w) ==
  /\ pc[w] = "is_completed"
  /\ \/ Return(w)
     \/ /\ pc' = [pc EXCEPT ![w] = "mark_failed"]
        /\ UNCHANGED loc
     \/ \E target \in universe : CallMarkCompleted(w, target, "ret")
  /\ UNCHANGED << config, otherTasks, popHistory, rateVars, frontier, bloom, running,
                  metrics, clock, engineTasks, history >>

FrontierStep(w) ==
  \/ WorkerLoop(w)
  \/ GetUrlZpopmin(w)
  \/ GetUrlSaddProcessing(w)
  \/ CrawlPageCalls(w)
  \/ MarkCompletedSrem(w)
  \/ MarkCompletedSadd(w)
  \/ MarkFailed(w)

InitFrontier == InitWith({"A", "B"}, {{}, {"A"}}, {0})

NextFrontier ==
  \/ \E w \in Workers : FrontierStep(w)
  \/ ApiAddUrls
  \/ ApiStep

FairnessFrontier ==
  /\ \A w \in Workers : WF_vars(FrontierStep(w))
  /\ WF_vars(ApiStep)

SpecFrontier == InitFrontier /\ [][NextFrontier]_vars /\ FairnessFrontier

\* The robots checker with its callers and the clock, on a web of two pages
\* of one origin.
InitRobots == InitWith({"A", "B"}, {{"A"}}, {MaxPages})

NextRobots ==
  \/ \E w \in Workers : RobotsStep(w)
  \/ Tick

SpecRobots == InitRobots /\ [][NextRobots]_vars

\* The backend engine under pause and resume, on a web of two pages.
InitPause ==
  /\ InitState({"A", "B"}, {{"A"}, {"A", "B"}}, {MaxPages})
  /\ pc = [w \in Workers |-> IF w \in EngineFirstRun THEN "e_loop" ELSE "e_unborn"]

NextPause ==
  \/ \E w \in Workers : EngineWorkerStep(w)
  \/ ServiceStep

SpecPause == InitPause /\ [][NextPause]_vars

\* The BloomFilter alone.
InitBloom == InitWith(URLs, {{}}, {0})

NextBloom ==
  \/ \E item \in BloomItems : BloomFilterAdd(item)
  \/ \E item \in BloomItems : BloomFilterContains(item)
  \/ BloomFilterClear

SpecBloom == InitBloom /\ [][NextBloom]_vars

\* The URLFrontier under its callers and the reset calls, on a web of one
\* page.
InitReset == InitWith({"A"}, {{}, {"A"}}, {0})

NextReset ==
  \/ \E w \in Workers : FrontierStep(w)
  \/ ApiAddUrls
  \/ ApiStep
  \/ ClearSpecificData
  \/ ClearCount
  \/ ClearDelete
  \/ ClearAllFrontierData

SpecReset == InitReset /\ [][NextReset]_vars

\* The configuration under update_config and the output block of crawl_page.
NextOutput ==
  \/ UpdateConfig
  \/ InitializeSinks
  \/ EmitDocument
  \/ EmitSendAndWait
  \/ EmitSaveLocally

SpecOutput == InitBloom /\ [][NextOutput]_vars

\* The validity check of links under the domain configuration and run().
InitValid == InitWith(URLs, {{}, {"A"}}, {0})

NextValid ==
  \/ UpdateAllowedDomains
  \/ RunSetAllowedDomains
  \/ IsValidUrlCall

SpecValid == InitValid /\ [][NextValid]_vars

\* ------------------------------------------------------------------ claims
QueueUrls == { e.url : e \in queue }
QueueEntries(u) == { e \in queue : e.url = u }
AddUrlPcs == {"add_sismember", "add_sadd", "add_zadd"}

\* C1: when several workers call add_url concurrently for the same URL,
\* exactly one call wins the SADD on seen, returns True and inserts the one
\* queue entry of that URL: a URL is in seen exactly when one call has won
\* (it has returned True or is about to ZADD), and no URL ever has more than
\* one successful add or more than one queue entry.
C1_AddElection ==
  \A u \in URLs :
    /\ addOk[u] <= 1
    /\ Cardinality(QueueEntries(u)) <= 1
    /\ addOk[u] + Cardinality({ w \in Workers : pc[w] = "add_zadd" /\ loc[w].link = u })
         = (IF u \in seen THEN 1 ELSE 0)

\* two workers are inside add_url for the same link; one has won the election
C1_Witness ==
  \E w1, w2 \in Workers :
    /\ w1 # w2
    /\ pc[w1] = "add_zadd"
    /\ pc[w2] = "add_sadd"
    /\ loc[w1].link = loc[w2].link
    /\ loc[w1].link \notin completed

\* C2: add_url(u) goes on after SISMEMBER iff u is not in completed and after
\* SADD iff u is not in seen; a call that returns True has added u to seen and
\* exactly one entry for u to the queue; a call that returns False changes no
\* frontier set; once an add of u has returned True no later one does.
C2_AddUrlContract ==
  [][\A w \in Workers :
       LET u == loc[w].link
           ended == pc[w] \in AddUrlPcs /\ pc'[w] \notin AddUrlPcs
           returnedTrue == ended /\ addOk'[u] = addOk[u] + 1
       IN /\ (pc[w] = "add_sismember" /\ pc'[w] # pc[w])
               => ((pc'[w] = "add_sadd") <=> (u \notin completed))
          /\ (pc[w] = "add_sadd" /\ pc'[w] # pc[w])
               => /\ (pc'[w] = "add_zadd") <=> (u \notin seen)
                  /\ (pc'[w] = "add_zadd") => (seen' = seen \cup {u})
          /\ returnedTrue
               => /\ pc[w] = "add_zadd"
                  /\ addOk[u] = 0
                  /\ u \in seen'
                  /\ \E e \in queue' : e.url = u /\ e \notin queue /\ queue' = queue \cup {e}
                  /\ UNCHANGED << seen, processing, completed >>
          /\ (ended /\ ~returnedTrue)
               => /\ u \in completed \/ u \in seen
                  /\ UNCHANGED << queue, seen, processing, completed >>
  ]_vars

\* an add of a URL has returned True and another add_url call for the same
\* URL has reached its SADD, where it is going to be refused
C2_Witness ==
  \E w \in Workers :
    /\ pc[w] = "add_sadd"
    /\ addOk[loc[w].link] = 1
    /\ loc[w].link \notin completed

\* C3: get_url never returns a URL that is in processing (held by another
\* worker) or in completed at the moment it returns.
C3_PopNotProcessingNotCompleted ==
  [][\A w \in Workers :
       (pc[w] = "sadd_processing" /\ pc'[w] \in {"is_completed", "top"})
         => (loc[w].url \notin processing /\ loc[w].url \notin completed)
  ]_vars

\* C4: queue, processing and completed are pairwise disjoint.
C4_FrontierDisjoint ==
  /\ QueueUrls \cap processing = {}
  /\ QueueUrls \cap completed = {}
  /\ processing \cap completed = {}

\* C5: seen contains every URL that is queued, in processing or completed.
C5_SeenSuperset == (QueueUrls \cup processing \cup completed) \subseteq seen

\* C6: at most one document per URL reaches the sink and no URL is requested
\* more than once.
C6_ExactlyOnce == \A u \in URLs : emitted[u] <= 1 /\ fetches[u] <= 1

\* C7: when wait returns for a domain, at least the effective delay of that
\* domain has passed since the previous return of wait for the same domain.
C7_DomainSpacing ==
  [][\A w \in Workers :
       (rlPc[w] # "in_flight" /\ rlPc'[w] = "in_flight")
         => LET d == rlLoc'[w].domain
            IN lastReturn[d] >= 0
                 => now - lastReturn[d] >= EffectiveDelay(rate_limits, d)
  ]_vars

\* C8: with max_pages > 0 no request is started while pages_crawled has
\* reached max_pages, and pages_crawled never exceeds max_pages.
C8_PageCap ==
  /\ [](max_pages > 0 => metrics.pages_crawled <= max_pages)
  /\ [][\A w \in Workers :
          (pc[w] = "rate_wait" /\ pc'[w] = "fetch") => ~PageCapReached(metrics)
     ]_vars

\* C9: once idle_shutdown_threshold consecutive metrics samples have found
\* the queue empty, processing empty and pages_crawled not advanced, the engine
\* eventually sets running to False.
C9_IdleShutdown == (idleSamples >= IdleShutdownThreshold) ~> (~running)

\* C10: every queue entry has depth <= max_depth and seeds have depth 0; a
\* worker is in the link loop only for a page of depth < max_depth, and the
\* record it builds for a link has the depth of the page plus one.
C10_DepthBound ==
  /\ \A e \in queue : e.depth <= MaxDepth /\ (e.url \in seeds => e.depth = 0)
  /\ \A w \in Workers :
       /\ loc[w].depth <= MaxDepth
       /\ pc[w] \in (AddUrlPcs \cup {"link_completed"}) => loc[w].depth < MaxDepth
       /\ pc[w] = "add_zadd" => /\ loc[w].entry.depth = loc[w].depth + 1
                                /\ loc[w].entry.depth <= MaxDepth

\* a page at depth max_depth has been crawled and has links, which are not
\* going to be enqueued, while an entry of depth max_depth was enqueued before
C10_Witness ==
  \E w \in Workers :
    /\ pc[w] = "mc_sadd"
    /\ loc[w].after = "links"
    /\ loc[w].depth = MaxDepth
    /\ loc[w].links # {}
    /\ MaxDepth > 0

RobotsFetchPcs == {"fetching", "reading"}
RobotsErrors == {"fetch_error", "parse_error"}

\* a task sends the robots.txt request of origin o in this step
RobotsFetchStarts(w, o) ==
  /\ robPc[w] \notin RobotsFetchPcs
  /\ robPc'[w] = "fetching"
  /\ robLoc'[w].origin = o

\* C11: ZPOPMIN returns the entry of lowest score: of the entries that were
\* queued together with the popped one, none with the same added_at has a
\* higher priority and none with the same priority was added earlier.
C11_PriorityOrdering ==
  \A f \in lastPop.rest :
    /\ f.added_at = lastPop.entry.added_at => f.priority <= lastPop.entry.priority
    /\ f.priority = lastPop.entry.priority => f.added_at >= lastPop.entry.added_at

\* an entry was popped ahead of a queued entry of the same added_at and
\* lower priority
C11_Witness ==
  /\ lastPop.entry # NoEntry
  /\ \E f \in lastPop.rest :
       f.added_at = lastPop.entry.added_at /\ f.priority < lastPop.entry.priority

\* C12: every URL for which add_url returned True is eventually returned by
\* a get_url call, as long as the workers keep calling get_url.
C12_PopLiveness == \A u \in URLs : (addOk[u] >= 1) ~> (popped[u] >= 1)

\* an add of a URL made through the API returned True and the URL was later
\* returned by get_url
C12_Witness ==
  \E u \in URLs : u \notin seeds /\ addOk[u] >= 1 /\ popped[u] >= 1

\* C13: when the robots.txt request of an origin met 401, 403, 404, 410 or
\* an empty body, can_fetch answers True for every URL of that origin.
C13_RobotsPermissive ==
  \A w \in Workers :
    (robPc[w] = "answered" /\ robLoc[w].basis = "permissive") => robLoc[w].answer

\* C14: when the robots.txt request of an origin failed or its parsing
\* failed, can_fetch answers False for every URL of that origin, and
\* robots.txt is requested again only once the entry is robots_cache_time old.
C14_RobotsFailClosed ==
  /\ [](\A w \in Workers :
          (robPc[w] = "answered" /\ robLoc[w].basis \in RobotsErrors) => ~robLoc[w].answer)
  /\ [][\A w \in Workers, o \in Domains :
          (RobotsFetchStarts(w, o) /\ robotsOutcome[o] \in RobotsErrors)
            => now - robots_cache[o].timestamp >= RobotsCacheTime
     ]_vars

\* a call was refused from the cached failure, some time after the failure
\* and without a new request
C14_Witness ==
  \E w \in Workers :
    /\ robPc[w] = "answered"
    /\ robLoc[w].basis \in RobotsErrors
    /\ ~robLoc[w].fetched
    /\ ~robLoc[w].answer
    /\ robots_cache[robLoc[w].origin].timestamp < now

\* C15: at most one robots.txt request of an origin is in flight; a caller
\* that arrives meanwhile waits and decides from the entry that request
\* leaves; a request is sent only when the origin has no entry or its entry is
\* at least robots_cache_time old.
C15_RobotsSingleFlight ==
  /\ [](\A w1, w2 \in Workers :
          (w1 # w2 /\ robPc[w1] \in RobotsFetchPcs /\ robPc[w2] \in RobotsFetchPcs)
            => robLoc[w1].origin # robLoc[w2].origin)
  /\ [][\A w \in Workers, o \in Domains :
          /\ RobotsFetchStarts(w, o)
                => (robots_cache[o].status = "none"
                    \/ now - robots_cache[o].timestamp >= RobotsCacheTime)
          /\ (robPc[w] = "acquire" /\ robPc'[w] = "answered" /\ robLoc[w].origin = o)
                => /\ robots_cache[o].status # "none"
                   /\ robLoc'[w].answer = RobotsDecision(robots_cache[o].parser, robLoc[w].url)
     ]_vars

\* a caller that waited for the request of another caller has been answered
\* from the entry of that request, without a request of its own
C15_Witness ==
  \E w \in Workers :
    /\ robPc[w] = "answered"
    /\ robLoc[w].waited
    /\ ~robLoc[w].fetched
    /\ robots_cache[robLoc[w].origin].timestamp = now

\* the workers have drained: every worker task has left its loop
EngineDrained == \A w \in Workers : pc[w] \in {"e_unborn", "e_finished"}

\* C16: pausing clears running and touches no frontier key; once the workers
\* have drained every URL that was queued at the pause is still queued and
\* seen and completed have lost nothing; resuming sets running and spawns a
\* worker without touching the frontier.
C16_PauseResume ==
  /\ []((atPause.active /\ EngineDrained)
          => /\ atPause.queue \subseteq QueueUrls
             /\ atPause.seen \subseteq seen
             /\ atPause.completed \subseteq completed)
  /\ [][(running /\ ~running') => UNCHANGED frontier]_vars
  /\ [][(~running /\ running')
          => /\ UNCHANGED frontier
             /\ \E w \in Workers : pc[w] = "e_unborn" /\ pc'[w] = "e_loop"
     ]_vars

\* C17: the filter has no false negatives: a string given to add since the
\* last clear has all its bits set, whatever was added after it, and a
\* contains call on it answers True.
C17_BloomNoFalseNegative ==
  /\ \A u \in bloomAdded : BloomContains(bloom, u)
  /\ (bloomCall.op = "contains" /\ bloomCall.item \in bloomAdded) => bloomCall.result

\* contains answered for a string that was added before another one
C17_Witness ==
  /\ bloomCall.op = "contains"
  /\ bloomCall.item \in bloomAdded
  /\ bloomCall.result
  /\ Cardinality(bloomAdded) >= 2

MarkCompletedPcs == {"mc_srem", "mc_sadd"}

\* C18: mark_completed(u) removes u from processing, then adds u to
\* completed, and writes nothing else; a call made when u is already out of
\* processing and in completed changes no frontier set, so a second call,
\* after the first or interleaved with it, leaves what one call leaves.
C18_MarkCompletedIdempotent ==
  [][\A w \in Workers :
       LET u == loc[w].target
       IN /\ (pc[w] = "mc_srem" /\ pc'[w] # pc[w])
               => /\ processing' = processing \ {u}
                  /\ UNCHANGED << queue, seen, completed >>
          /\ (pc[w] = "mc_sadd" /\ pc'[w] # pc[w])
               => /\ completed' = completed \cup {u}
                  /\ UNCHANGED << queue, seen, processing >>
          /\ (pc[w] \in MarkCompletedPcs /\ pc'[w] # pc[w]
                /\ u \notin processing /\ u \in completed)
               => UNCHANGED frontier
  ]_vars

\* two workers are inside mark_completed for the same URL at once: both have
\* removed it from processing and neither has added it to completed yet
C18_Witness ==
  \E w1, w2 \in Workers :
    /\ w1 # w2
    /\ pc[w1] = "mc_sadd"
    /\ pc[w2] = "mc_sadd"
    /\ loc[w1].target = loc[w2].target
    /\ loc[w1].target \notin completed

\* C19: mark_failed(u) removes u from processing and writes nothing else;
\* a URL it was called for is never queued again, and no later add_url call
\* for it returns True.
C19_MarkFailedFrame ==
  /\ [](failed \cap QueueUrls = {})
  /\ [][/\ \A w \in Workers :
            (pc[w] = "mark_failed" /\ pc'[w] # pc[w])
              => /\ processing' = processing \ {loc[w].url}
                 /\ UNCHANGED << queue, seen, completed >>
        /\ \A u \in failed : addOk'[u] = addOk[u]
     ]_vars

\* mark_failed was called for a URL and a later add_url call for that URL
\* has reached its SADD on seen
C19_Witness ==
  /\ apiPc = "add_sadd"
  /\ apiLoc.url \in failed
  /\ apiLoc.url \notin completed

\* C20: membership in seen is monotonic: a step that removes a URL from seen
\* is a reset call, clear_all_frontier_data or clear_specific_data with
\* clear_seen; add_url, get_url, mark_completed and mark_failed never do.
C20_SeenMonotonic ==
  [][~(seen \subseteq seen')
       => /\ resetCall'.n = resetCall.n + 1
          /\ \/ resetCall'.op = "clear_all_frontier_data"
             \/ resetCall'.op = "clear_specific_data" /\ resetCall'.clear_seen
  ]_vars

\* a reset that did not name seen has been made, URLs are still in seen and
\* a frontier call of a worker is under way
C20_Witness ==
  /\ resetCall.op = "clear_specific_data"
  /\ ~resetCall.clear_seen
  /\ seen # {}
  /\ \E w \in Workers : pc[w] = "mc_sadd" /\ loc[w].target \in seen

\* C21: clear_all_frontier_data leaves the four frontier keys empty, whatever
\* they held, and an add_url call that finds the frontier as the clear left it
\* returns True.
C21_AddAfterClear ==
  [][/\ (resetCall'.n = resetCall.n + 1 /\ resetCall'.op = "clear_all_frontier_data")
          => (queue' = {} /\ seen' = {} /\ processing' = {} /\ completed' = {})
     /\ (apiPc = "add_sismember" /\ apiPc' # apiPc /\ AsCleared)
          => apiPc' = "add_sadd"
     /\ (apiPc \in AddUrlPcs /\ apiPc' = "idle" /\ apiLoc.after_clear)
          => addOk'[apiLoc.url] = addOk[apiLoc.url] + 1
  ]_vars

\* a URL that had been popped (it was in seen, and in processing or
\* completed) is being added again right after a clear of the frontier
C21_Witness ==
  /\ apiPc = "add_zadd"
  /\ apiLoc.after_clear
  /\ popped[apiLoc.url] >= 1

\* C22: validate raises for a configuration in which the bus output and the
\* local save are both disabled.
C22_NoSinkRejected ==
  validation = "ok" => (cfg.enable_kafka_output \/ cfg.enable_local_save)

\* C23: with both sinks enabled every document is handed to both: the bus
\* send is made and the local save is made, whatever the other one did.
C23_BothSinks ==
  (emitPc = "idle" /\ emitDoc.both_enabled)
    => (emitDoc.kafka \in {"sent", "failed"} /\ emitDoc.local \in {"saved", "failed"})

\* C24: while allowed_domains is configured as the empty list, a link passes
\* _is_valid_url exactly when it is http(s), has a host and has no excluded
\* extension, whatever the host.
C24_NoDomainRestriction ==
  (validCall.link # NoLink /\ validCall.configured = {})
    => (validCall.result <=> (/\ validCall.link.scheme \in {"http", "https"}
                              /\ validCall.link.netloc # ""
                              /\ ~validCall.link.excluded))

\* C25: no two requests to the same host are in flight at the same time.
C25_OneRequestPerHost ==
  \A w1, w2 \in Workers :
    (w1 # w2 /\ rlPc[w1] = "in_flight" /\ rlPc[w2] = "in_flight")
      => rlLoc[w1].domain # rlLoc[w2].domain
\* ------------------------------------------------------------ url_utils.py
\* A str is a sequence of one-character strings.  Ascii lists the printable
\* characters from code 32 to code 126; the URLs of NormInputs and everything
\* computed from them stay inside it.  Code 96 cannot be written inside a
\* string of this language and stands under its name.
Ascii ==
  << " ", "!", "\"", "#", "$", "%", "&", "'", "(", ")", "*", "+", ",", "-", ".", "/",
     "0", "1", "2", "3", "4", "5", "6", "7", "8", "9", ":", ";", "<", "=", ">", "?",
     "@", "A", "B", "C", "D", "E", "F", "G", "H", "I", "J", "K", "L", "M", "N", "O",
     "P", "Q", "R", "S", "T", "U", "V", "W", "X", "Y", "Z", "[", "\\", "]", "^", "_",
     "grave", "a", "b", "c", "d", "e", "f", "g", "h", "i", "j", "k", "l", "m", "n", "o",
     "p", "q", "r", "s", "t", "u", "v", "w", "x", "y", "z", "{", "|", "}", "~" >>

Ord(c) == 31 + (CHOOSE i \in 1..Len(Ascii) : Ascii[i] = c)
Chr(n) == Ascii[n - 31]

CharsBetween(a, b) == {Chr(n) : n \in a..b}
DigitChars == CharsBetween(48, 57)
UpperChars == CharsBetween(65, 90)
LowerChars == CharsBetween(97, 122)
HexLetters == CharsBetween(65, 70) \cup CharsBetween(97, 102)
IsDigit(c) == c \in DigitChars
IsUpper(c) == c \in UpperChars
IsLower(c) == c \in LowerChars
IsHexDigit(c) == IsDigit(c) \/ c \in HexLetters
HexValue(c) == IF IsDigit(c) THEN Ord(c) - 48
               ELSE IF IsUpper(c) THEN Ord(c) - 55 ELSE Ord(c) - 87
HexDigits == << "0", "1", "2", "3", "4", "5", "6", "7", "8", "9",
                "A", "B", "C", "D", "E", "F" >>

\* str.lower()
Lower(s) == [i \in 1..Len(s) |-> IF IsUpper(s[i]) THEN Chr(Ord(s[i]) + 32) ELSE s[i]]

\* str.find(c), counted from 1; 0 when c does not occur
Find(s, c) == IF \E i \in 1..Len(s) : s[i] = c
              THEN CHOOSE i \in 1..Len(s) : s[i] = c /\ \A j \in 1..(i - 1) : s[j] # c
              ELSE 0

\* str.split(c)
RECURSIVE Split(_, _)
Split(s, c) ==
  LET i == Find(s, c)
  IN IF i = 0 THEN << s >>
     ELSE << SubSeq(s, 1, i - 1) >> \o Split(SubSeq(s, i + 1, Len(s)), c)

\* c.join(parts)
RECURSIVE Join(_, _)
Join(parts, c) ==
  IF parts = << >> THEN << >>
  ELSE IF Len(parts) = 1 THEN parts[1]
  ELSE parts[1] \o << c >> \o Join(Tail(parts), c)

\* str.endswith(t)
EndsWith(s, t) == Len(s) >= Len(t) /\ SubSeq(s, Len(s) - Len(t) + 1, Len(s)) = t

\* urllib.parse.unquote: every %XX with two hex digits becomes the character XX
RECURSIVE Unquote(_)
Unquote(s) ==
  IF s = << >> THEN << >>
  ELSE IF /\ s[1] = "%"
          /\ Len(s) >= 3
          /\ IsHexDigit(s[2])
          /\ IsHexDigit(s[3])
          /\ (16 * HexValue(s[2]) + HexValue(s[3])) \in 32..126
       THEN << Chr(16 * HexValue(s[2]) + HexValue(s[3])) >> \o Unquote(SubSeq(s, 4, Len(s)))
       ELSE << s[1] >> \o Unquote(Tail(s))

\* urllib.parse.quote(s, safe): letters, digits and _.-~ and the safe
\* characters stay, every other character becomes %XX in upper-case hex
RECURSIVE Quote(_, _)
Quote(s, safe) ==
  IF s = << >> THEN << >>
  ELSE LET c == s[1]
           keep == \/ IsDigit(c) \/ IsUpper(c) \/ IsLower(c)
                   \/ c \in {"_", ".", "-", "~"}
                   \/ c \in safe
       IN (IF keep THEN << c >>
           ELSE << "%", HexDigits[(Ord(c) \div 16) + 1], HexDigits[(Ord(c) % 16) + 1] >>)
          \o Quote(Tail(s), safe)

\* str.partition(c): the text before the first c and the text after it
Partition(s, c) ==
  LET i == Find(s, c)
  IN [head |-> IF i = 0 THEN s ELSE SubSeq(s, 1, i - 1),
      tail |-> IF i = 0 THEN << >> ELSE SubSeq(s, i + 1, Len(s))]

\* urlsplit: the scheme is the text before the first ':' when that text
\* starts with a letter and holds only letters, digits and +-.
SchemeChars == {"+", "-", "."}
SplitScheme(url) ==
  LET i == Find(url, ":")
  IN IF /\ i > 1
        /\ IsUpper(url[1]) \/ IsLower(url[1])
        /\ \A k \in 1..(i - 1) :
             \/ IsUpper(url[k]) \/ IsLower(url[k]) \/ IsDigit(url[k])
             \/ url[k] \in SchemeChars
     THEN [scheme |-> Lower(SubSeq(url, 1, i - 1)), rest |-> SubSeq(url, i + 1, Len(url))]
     ELSE [scheme |-> << >>, rest |-> url]

\* urlsplit: after '//' the netloc runs to the first of '/', '?' and '#'
NetlocEnd(rest, k) ==
  IF k > Len(rest) \/ rest[k] \in {"/", "?", "#"} THEN k
  ELSE CHOOSE e \in (k + 1)..(Len(rest) + 1) :
         /\ e = Len(rest) + 1 \/ rest[e] \in {"/", "?", "#"}
         /\ \A j \in (k + 1)..(e - 1) : rest[j] \notin {"/", "?", "#"}
SplitNetlocAt(rest, stop) ==
  [netloc |-> SubSeq(rest, 3, stop - 1), rest |-> SubSeq(rest, stop, Len(rest))]
SplitNetloc(rest) ==
  IF Len(rest) >= 2 /\ rest[1] = "/" /\ rest[2] = "/"
  THEN SplitNetlocAt(rest, NetlocEnd(rest, 3))
  ELSE [netloc |-> << >>, rest |-> rest]

\* urlsplit: the fragment follows the first '#', the query the first '?'
\* of what is before it
SplitPathQuery(scheme, netloc, beforeFragment, fragment) ==
  [scheme |-> scheme, netloc |-> netloc,
   path |-> beforeFragment.head, query |-> beforeFragment.tail, fragment |-> fragment]
SplitFragment(scheme, netloc, parts) ==
  SplitPathQuery(scheme, netloc, Partition(parts.head, "?"), parts.tail)
SplitAfterNetloc(scheme, parts) ==
  SplitFragment(scheme, parts.netloc, Partition(parts.rest, "#"))
SplitAfterScheme(parts) == SplitAfterNetloc(parts.scheme, SplitNetloc(parts.rest))

\* urllib.parse.urlparse: scheme, netloc, path, query and fragment of a URL
\* that holds no ';' (params stays empty)
UrlParse(url) == SplitAfterScheme(SplitScheme(url))

\* normalize_path lines 15-20: '..' drops the last segment kept unless that
\* segment is empty, '.' is dropped
RECURSIVE NormSegments(_, _)
NormSegments(segments, norm_segments) ==
  IF segments = << >> THEN norm_segments
  ELSE LET s == Head(segments)
       IN NormSegments(Tail(segments),
            IF s = << ".", "." >>
            THEN IF norm_segments # << >> /\ norm_segments[Len(norm_segments)] # << >>
                 THEN SubSeq(norm_segments, 1, Len(norm_segments) - 1)
                 ELSE norm_segments
            ELSE IF s # << "." >> THEN Append(norm_segments, s)
            ELSE norm_segments)

\* str.lstrip('/')
RECURSIVE LStripSlash(_)
LStripSlash(s) == IF s # << >> /\ s[1] = "/" THEN LStripSlash(Tail(s)) ELSE s

\* MULTI_SLASH_REGEX.sub('/', path)
RECURSIVE CollapseSlashes(_)
CollapseSlashes(s) ==
  IF Len(s) < 2 THEN s
  ELSE IF s[1] = "/" /\ s[2] = "/" THEN CollapseSlashes(Tail(s))
  ELSE << s[1] >> \o CollapseSlashes(Tail(s))

\* normalize_path lines 11-12, 28-29 and 33
Rooted(path) == IF path = << >> \/ path[1] # "/" THEN << "/" >> \o path ELSE path

\* normalize_path lines 26-27
LeadingSlash(path) ==
  IF Len(path) >= 2 /\ path[1] = "/" /\ path[2] = "/"
  THEN << "/" >> \o LStripSlash(path) ELSE path

\* normalize_path lines 21-33: the path of the segments kept (the test of
\* line 30 is never true)
PathOfSegments(norm_segments) ==
  IF norm_segments = << >> \/ norm_segments = << << >> >> THEN << "/" >>
  ELSE IF /\ Len(norm_segments) > 1
          /\ \A k \in 1..Len(norm_segments) : norm_segments[k] = << >>
       THEN << "/" >>
  ELSE Rooted(CollapseSlashes(Rooted(LeadingSlash(Join(norm_segments, "/")))))

\* normalize_path lines 8-33
NormalizePath(path) ==
  IF path = << >> \/ path = << "/" >> THEN << "/" >>
  ELSE PathOfSegments(NormSegments(Split(Rooted(path), "/"), << >>))

\* name.replace('+', ' ')
PlusToSpace(s) == [i \in 1..Len(s) |-> IF s[i] = "+" THEN " " ELSE s[i]]

\* parse_qs: the name and the value of one field, unquoted; a field without
\* '=' has the empty value (keep_blank_values=True)
NameValue(parts) ==
  << Unquote(PlusToSpace(parts.head)), Unquote(PlusToSpace(parts.tail)) >>

\* urllib.parse.parse_qsl(query, keep_blank_values=True): the (name, value)
\* pairs of the query in their order; empty fields are skipped
RECURSIVE ParsePairs(_)
ParsePairs(fields) ==
  IF fields = << >> THEN << >>
  ELSE (IF Head(fields) = << >> THEN << >>
        ELSE << NameValue(Partition(Head(fields), "=")) >>)
       \o ParsePairs(Tail(fields))

\* a < b for two str, as Python compares them
RECURSIVE StrLess(_, _)
StrLess(a, b) ==
  IF b = << >> THEN FALSE
  ELSE IF a = << >> THEN TRUE
  ELSE IF a[1] # b[1] THEN Ord(a[1]) < Ord(b[1])
  ELSE StrLess(Tail(a), Tail(b))

PairLessEq(x, y) == \/ StrLess(x[1], y[1])
                    \/ x[1] = y[1] /\ (x[2] = y[2] \/ StrLess(x[2], y[2]))

\* normalize_url line 49: parse_qs groups the values by name, the names are
\* sorted and the values of each name are sorted; the flat list of pairs that
\* urlencode(doseq=True) walks is the list of pairs in (name, value) order
RECURSIVE InsertPair(_, _)
InsertPair(x, sorted) ==
  IF sorted = << >> THEN << x >>
  ELSE IF PairLessEq(x, Head(sorted)) THEN << x >> \o sorted
  ELSE << Head(sorted) >> \o InsertPair(x, Tail(sorted))

RECURSIVE SortedParams(_)
SortedParams(pairs) ==
  IF pairs = << >> THEN << >>
  ELSE InsertPair(Head(pairs), SortedParams(Tail(pairs)))

\* urlencode(sorted_params, doseq=True, quote_via=quote(x, safe=''))
UrlEncode(pairs) ==
  Join([k \in 1..Len(pairs) |-> Quote(pairs[k][1], {}) \o << "=" >> \o Quote(pairs[k][2], {})],
       "&")

\* urlunparse((scheme, netloc, path, '', query, ''))
UrlUnparse(scheme, netloc, path, query) ==
  scheme \o << ":", "/", "/" >> \o netloc
  \o (IF path # << >> /\ path[1] # "/" THEN << "/" >> \o path ELSE path)
  \o (IF query # << >> THEN << "?" >> \o query ELSE << >>)

\* str.rsplit(':', 1)[0]
BeforeLastColon(s) ==
  IF \A k \in 1..Len(s) : s[k] # ":" THEN s
  ELSE SubSeq(s, 1, (CHOOSE k \in 1..Len(s) :
                       s[k] = ":" /\ \A j \in (k + 1)..Len(s) : s[j] # ":") - 1)

\* normalize_url lines 44-45
StripDefaultPort(scheme, netloc) ==
  IF \/ scheme = << "h", "t", "t", "p" >> /\ EndsWith(netloc, << ":", "8", "0" >>)
     \/ scheme = << "h", "t", "t", "p", "s" >> /\ EndsWith(netloc, << ":", "4", "4", "3" >>)
  THEN BeforeLastColon(netloc) ELSE netloc

\* normalize_url lines 47-50
NormalizeQuery(query) ==
  IF query # << >> THEN UrlEncode(SortedParams(ParsePairs(Split(query, "&"))))
  ELSE << >>

\* normalize_url lines 38-52, given the parts of the unquoted URL
NormalizeParsed(url, parsed) ==
  IF parsed.scheme = << >> \/ parsed.netloc = << >> THEN url
  ELSE UrlUnparse(Lower(parsed.scheme),
                  StripDefaultPort(Lower(parsed.scheme), Lower(parsed.netloc)),
                  Quote(NormalizePath(IF parsed.path = << >> THEN << "/" >> ELSE parsed.path),
                        {"/"}),
                  NormalizeQuery(parsed.query))

\* normalize_url lines 35-54
NormalizeUrl(url) == NormalizeParsed(url, UrlParse(Unquote(url)))

\* the URLs given to normalize_url: a scheme and host with or without a
\* port, up to MaxSegments path segments, up to MaxParams query parameters
\* and an optional fragment
Origins ==
  { << "h", "t", "t", "p", ":", "/", "/", "h" >>,
    << "H", "T", "T", "P", ":", "/", "/", "H", ":", "8", "0" >>,
    << "h", "t", "t", "p", "s", ":", "/", "/", "h", ":", "4", "4", "3" >> }
Segments ==
  { << >>, << "a" >>, << "." >>, << ".", "." >>, << "%", "2", "5", "2", "E" >> }
Params ==
  { << "b", "=", "1" >>, << "a", "=", "%", "2", "5", "2", "6" >>,
    << "c", "=", "x", "+", "y" >> }
Fragments == { << >>, << "#", "f" >> }
SeqsUpTo(S, n) == UNION {[1..k -> S] : k \in 0..n}
NormInputs ==
  { o \o (IF segs = << >> THEN << >> ELSE << "/" >> \o Join(segs, "/"))
      \o (IF ps = << >> THEN << >> ELSE << "?" >> \o Join(ps, "&"))
      \o f :
    o \in Origins, segs \in SeqsUpTo(Segments, MaxSegments),
    ps \in SeqsUpTo(Params, MaxParams), f \in Fragments }

normFrame == << config, frontier, bloom, running, metrics, clock, pc, loc, engineTasks,
                history, popHistory, apiVars, robotsVars, serviceVars, bloomOps, resetOps,
                outputOps, validOps, backendRateOps, rateVars >>

\* a caller normalizes a URL it was given: handle_add_seeds line 96
NormalizeUrlCall ==
  /\ normCall.calls = 0
  /\ \E url \in NormInputs :
       normCall' = [calls |-> 1, url |-> url, first |-> NormalizeUrl(url), second |-> << >>]
  /\ UNCHANGED << normFrame, addCall >>

\* the URL is normalized again further down: add_url line 37 is given the
\* URL that handle_add_seeds has normalized
NormalizeAgainCall ==
  /\ normCall.calls = 1
  /\ normCall' = [normCall EXCEPT !.calls = 2, !.second = NormalizeUrl(normCall.first)]
  /\ UNCHANGED << normFrame, addCall >>

\* the next request
NormalizeReset ==
  /\ normCall.calls = 2
  /\ normCall' = NoNormCall
  /\ UNCHANGED << normFrame, addCall >>

NextNormalize == NormalizeUrlCall \/ NormalizeAgainCall \/ NormalizeReset

SpecNormalize == InitBloom /\ [][NextNormalize]_vars

\* ------------------------------------------------ add_url on URL strings
\* the URLs a caller hands to add_url: two crawlable URLs, a URL of another
\* scheme, a URL without a scheme, two URLs without a host and the empty
\* string
AddUrlInputs ==
  { << "h", "t", "t", "p", ":", "/", "/", "h", "/", "a" >>,
    << "h", "t", "t", "p", "s", ":", "/", "/", "h", "/" >>,
    << "f", "t", "p", ":", "/", "/", "h", "/", "a" >>,
    << "h", "/", "a" >>,
    << "h", "t", "t", "p", ":", "/", "/", "/", "a" >>,
    << "m", "a", "i", "l", "t", "o", ":", "x" >>,
    << >> }

addUrlFrame == << config, bloom, running, metrics, pc, loc, engineTasks,
                  history, popHistory, apiVars, robotsVars, serviceVars, bloomOps, resetOps,
                  outputOps, validOps, backendRateOps, rateVars, normCall >>

\* add_url lines 35-38: norm_url = normalize_url(url); a falsy norm_url
\* returns False, otherwise SISMEMBER completed is sent
StrAddUrlCall ==
  /\ addCall.pc = "idle"
  /\ addCall.n < MaxAddUrlCalls
  /\ \E url \in AddUrlInputs, priority \in PriorityChoices :
       addCall' = IF NormalizeUrl(url) = << >>
                    THEN [addCall EXCEPT !.n = @ + 1, !.url = url, !.norm_url = << >>,
                                         !.priority = priority, !.returned = FALSE]
                    ELSE [addCall EXCEPT !.n = @ + 1, !.url = url,
                                         !.norm_url = NormalizeUrl(url),
                                         !.priority = priority, !.pc = "sismember"]
  /\ UNCHANGED << addUrlFrame, frontier, clock >>

\* add_url lines 40-41: the reply of SISMEMBER completed
StrAddUrlSismember ==
  /\ addCall.pc = "sismember"
  /\ addCall' = IF Sismember(completed, addCall.norm_url)
                  THEN [addCall EXCEPT !.pc = "idle", !.returned = FALSE]
                  ELSE [addCall EXCEPT !.pc = "sadd"]
  /\ UNCHANGED << addUrlFrame, frontier, clock >>

\* add_url lines 42-43: SADD seen and its reply
StrAddUrlSadd ==
  /\ addCall.pc = "sadd"
  /\ IF SaddIsNew(seen, addCall.norm_url)
       THEN /\ seen' = seen \cup {addCall.norm_url}
            /\ addCall' = [addCall EXCEPT !.pc = "zadd"]
       ELSE /\ addCall' = [addCall EXCEPT !.pc = "idle", !.returned = FALSE]
            /\ UNCHANGED seen
  /\ UNCHANGED << addUrlFrame, queue, processing, completed, clock >>

\* add_url lines 44-51: the record is built with time.time() and ZADD queue
\* is sent; True is returned
StrAddUrlZadd ==
  /\ addCall.pc = "zadd"
  /\ queue' = queue \cup {[url |-> addCall.norm_url, depth |-> 0,
                            priority |-> addCall.priority, added_at |-> clock]}
  /\ clock' \in {clock, clock + 1}
  /\ addCall' = [addCall EXCEPT !.pc = "idle", !.returned = TRUE]
  /\ UNCHANGED << addUrlFrame, seen, processing, completed >>

NextAddUrl == StrAddUrlCall \/ StrAddUrlSismember \/ StrAddUrlSadd \/ StrAddUrlZadd

SpecAddUrl == InitBloom /\ [][NextAddUrl]_vars

\* C26: normalizing a normalized URL gives the same URL.
C26_NormalizeIdempotent == normCall.calls = 2 => normCall.second = normCall.first

\* C27: every URL that enters processing leaves processing again: the
\* crawl_page call made for it returns, and it has removed the URL.
C27_LeavesProcessing ==
  \A u \in URLs : (u \in processing) ~> (u \notin processing)

\* C28: when can_fetch refuses a popped URL, robots_denied grows by one, the
\* URL leaves processing, enters completed and is added to the bloom filter,
\* and on the way no request is made, no document is emitted and
\* pages_crawled does not change.
RobotsDeniedPath(w) ==
  /\ pc[w] \in {"mc_srem", "mc_sadd"}
  /\ loc[w].after = "bloom_ret"
  /\ loc[w].final = NoURL
C28_RobotsDenied ==
  [][\A w \in Workers :
       /\ (pc[w] = "can_fetch" /\ pc'[w] # "can_fetch" /\ pc'[w] # "rate_wait")
            => /\ RobotsDeniedPath(w)' /\ pc'[w] = "mc_srem"
               /\ loc'[w].url = loc[w].url /\ loc'[w].target = loc[w].url
               /\ metrics'.robots_denied = metrics.robots_denied + 1
               /\ metrics'.pages_crawled = metrics.pages_crawled
               /\ fetches' = fetches /\ emitted' = emitted
       /\ (RobotsDeniedPath(w) /\ pc'[w] # pc[w])
            => /\ metrics' = metrics
               /\ fetches' = fetches /\ emitted' = emitted
       /\ (RobotsDeniedPath(w) /\ pc[w] = "mc_srem" /\ pc'[w] # pc[w])
            => /\ RobotsDeniedPath(w)' /\ pc'[w] = "mc_sadd"
               /\ loc'[w].url = loc[w].url
               /\ loc[w].url \notin processing'
       /\ (RobotsDeniedPath(w) /\ pc[w] = "mc_sadd" /\ pc'[w] # pc[w])
            => /\ pc'[w] = "top"
               /\ loc[w].url \notin processing'
               /\ loc[w].url \in completed'
               /\ BloomContains(bloom', loc[w].url)
  ]_vars
C28_Witness ==
  /\ metrics.robots_denied = 1
  /\ metrics.pages_crawled = 0
  /\ "A" \in completed /\ "A" \notin processing
  /\ BloomContains(bloom, "A")
  /\ fetches["A"] = 0 /\ emitted["A"] = 0
  /\ \A w \in Workers : pc[w] = "top"

\* C29: when the popped URL redirects to a final URL that is already in
\* completed, no document is emitted, and when crawl_page returns both URLs
\* are in completed and the bloom filter contains both.
RedirectCompletedPath(w) ==
  /\ pc[w] \in {"mc_srem", "mc_sadd"}
  /\ loc[w].after = "bloom_ret"
  /\ loc[w].final # NoURL
C30_FetchError ==
  [][/\ \A w \in Workers :
          /\ (pc[w] = "fetch" /\ pc'[w] = "mark_failed")
               => /\ metrics'.errors = metrics.errors + 1
                  /\ loc'[w].url = loc[w].url
                  /\ queue' = queue /\ completed' = completed
          /\ (pc[w] = "mark_failed" /\ pc'[w] # pc[w])
               => /\ pc'[w] = "top"
                  /\ metrics' = metrics
                  /\ loc[w].url \notin processing'
                  /\ loc[w].url \in failed'
                  /\ queue' = queue /\ completed' = completed
                  /\ BloomContains(bloom', loc[w].url)
     /\ \A u \in failed' : u \notin QueueUrls'
  ]_vars
C30_Witness ==
  /\ "A" \in failed
  /\ fetches["A"] = 1
  /\ metrics.errors = 1
  /\ "A" \notin processing /\ "A" \notin completed /\ "A" \notin QueueUrls
  /\ BloomContains(bloom, "A")
  /\ \E w \in Workers : pc[w] = "link_completed" /\ loc[w].link = "A"

\* C31: when the write of a fetched document to the enabled sink fails,
\* errors grows by one and the worker goes on to mark the URL completed.
C31_SinkFailure ==
  [][\A w \in Workers :
       (pc[w] = "emit" /\ pc'[w] # "emit" /\ emitted' = emitted)
         => /\ metrics'.errors = metrics.errors + 1
            /\ pc'[w] = "mc_srem"
            /\ loc'[w].target = loc[w].final
  ]_vars

\* C32: when the popped URL is already in completed, crawl_page changes
\* nothing but processing: completed, seen, the queue, the bloom filter and
\* the metrics counters stay as they are until it returns.
C32_AlreadyCompleted ==
  [][\A w \in Workers :
       (pc[w] = "is_completed" /\ loc[w].url \in completed /\ pc'[w] # pc[w])
         => /\ metrics' = metrics
            /\ bloom' = bloom
            /\ completed' = completed /\ seen' = seen /\ queue' = queue
  ]_vars

\* C33: every URL that crawl_page has moved into completed or has marked
\* failed is contained in the bloom filter.
C33_TerminalInBloom == \A u \in completed \cup failed : BloomContains(bloom, u)
C33_Witness ==
  /\ "A" \in completed /\ "B" \in failed
  /\ "C" \notin completed \cup failed
  /\ ~BloomContains(bloom, "C")

\* C34: clear_specific_data empties exactly the flagged frontier sets and
\* leaves the others as they are; its counts change nothing, each is the
\* number of members the key holds when it is counted, and the report gives
\* the counts of the cleared keys and of no other key.
FrontierKey(key) ==
  CASE key = "completed" -> completed
    [] key = "seen" -> seen
    [] key = "processing" -> processing
    [] OTHER -> queue
FrontierKeyNext(key) ==
  CASE key = "completed" -> completed'
    [] key = "seen" -> seen'
    [] key = "processing" -> processing'
    [] OTHER -> queue'
InvalidUrl(url) ==
  \/ Lower(UrlParse(url).scheme) \notin { << "h", "t", "t", "p" >>, << "h", "t", "t", "p", "s" >> }
  \/ UrlParse(url).netloc = << >>
C35_InvalidRejected ==
  [][(addCall' # addCall /\ InvalidUrl(addCall'.url))
       => /\ UNCHANGED frontier
          /\ addCall'.pc = "idle"
          /\ addCall'.returned = FALSE]_vars

\* C36: once update_custom_delay has been given a Crawl-delay d > 0 for a
\* host, a wait for that host that enters afterwards uses d: it sets
\* next_access to its return time plus d, at once or after its sleep.  An
\* update with d <= 0 leaves every delay as it was.
WaitEnters(w) ==
  /\ rlPc[w] \in {"idle", "acquire"}
  /\ rlPc'[w] \in {"sleeping", "in_flight"}
C36_CrawlDelayUsed ==
  [][/\ \A w \in Workers :
          (WaitEnters(w) /\ delayUpdate.delay > 0 /\ rlLoc'[w].domain = delayUpdate.domain)
             => IF rlPc'[w] = "sleeping"
                  THEN rlLoc'[w].delay = delayUpdate.delay
                  ELSE next_access'[delayUpdate.domain] = now + delayUpdate.delay
     /\ \A w \in Workers :
          (rlPc[w] = "sleeping" /\ rlPc'[w] = "in_flight")
             => next_access'[rlLoc[w].domain] = now + rlLoc[w].delay
     /\ (delayUpdate' # delayUpdate /\ delayUpdate'.delay <= 0)
          => rate_limits' = rate_limits
     /\ (delayUpdate' # delayUpdate /\ delayUpdate'.delay > 0)
          => rate_limits' = [rate_limits EXCEPT ![delayUpdate'.domain] = delayUpdate'.delay]
  ]_vars
C36_Witness ==
  /\ delayUpdate = [domain |-> "x.org", delay |-> 0]
  /\ rate_limits["x.org"] = 3
  /\ now = 1
  /\ next_access["x.org"] = 4
  /\ lastReturn["x.org"] = 1

\* C37: reset_domain deletes both entries of the domain: a step that removes
\* the next_access entry of a domain (only reset_domain does) leaves the
\* domain without a delay override, so the next wait uses default_delay.
C37_ResetDeletesBoth ==
  [][\A d \in Domains :
       (next_access[d] # 0 /\ next_access'[d] = 0)
          => /\ rate_limits'[d] = 0
             /\ EffectiveDelay(rate_limits', d) = DefaultDelay]_vars

\* C38: when the backend wait_if_needed returns for a domain, at least the
\* rate limit of that domain has passed since its previous return for the
\* same domain, whichever worker that was.
C38_BackendSpacing ==
  [][\A w \in Workers :
       (rlPc[w] # "in_flight" /\ rlPc'[w] = "in_flight")
         => (lastReturn[rlLoc'[w].domain] >= 0
               => now - lastReturn[rlLoc'[w].domain]
                    >= EffectiveDelay(rate_limits, rlLoc'[w].domain))
  ]_vars

\* C39: under any sequence of pause_crawler and resume_crawler calls the
\* number of live worker tasks of the engine (spawned and not yet out of
\* their loop) never exceeds config.workers, which is the number of tasks
\* the first run() spawned.
C39_LiveWorkers == { w \in Workers : pc[w] \notin {"e_unborn", "e_finished"} }
C39_WorkerBound == Cardinality(C39_LiveWorkers) <= Cardinality(EngineFirstRun)

\* C40: when run() or the metrics reporter clears running because the crawl
\* is complete (not for the page cap), no worker is handling a popped page:
\* every worker is at the top of its loop, in a get_url that has popped
\* nothing, or has left its loop.
C40_CompletionStop ==
  /\ running /\ ~running'
  /\ \/ runPc \in {"run_proc2", "run_completed"} /\ runPc' = "run_gather"
     \/ repPc = "rep_proc" /\ repPc' = "rep_done"
C40_StopsOnlyWhenIdle ==
  [][C40_CompletionStop => \A w \in Workers : pc[w] \in {"top", "zpopmin", "stopped"}]_vars
====
